---- MODULE Spec2Model ----
(***************************************************************************)
(* Model of the issue handlers, format options, field selector, text       *)
(* truncation utilities and issue formatters of mcp-server-redmine.        *)
(*                                                                         *)
(* JavaScript values are tagged records (field k names the type).  A text  *)
(* is a sequence of one-character strings, so that trimming, truncation    *)
(* and escaping are computed character by character.  The rendered XML is  *)
(* a sequence of elements [tag, text] in document order.                   *)
(***************************************************************************)
EXTENDS Integers, Sequences, FiniteSets, TLC

VARIABLES pc, handler, args, request, calls, collab, outcome, envelope, op, inp, res

vars == <<pc, handler, args, request, calls, collab, outcome, envelope, op, inp, res>>

hvars == <<pc, handler, args, request, calls, collab, outcome, envelope>>

fvars == <<op, inp, res>>

----------------------------------------------------------------------------
(* JavaScript values *)

Undef == [k |-> "undefined"]

Null == [k |-> "null"]

Str(s) == [k |-> "string", s |-> s]

Num(n) == [k |-> "number", n |-> n]

Bool(b) == [k |-> "boolean", b |-> b]

Obj(id, name) == [k |-> "object", id |-> id, name |-> name]

Arr(a) == [k |-> "array", a |-> a]

\* JavaScript truthiness, as used by `if (x)`, `x && y`, `x || y`, `!x`
Truthy(v) ==
  CASE v.k = "undefined" -> FALSE
    [] v.k = "null" -> FALSE
    [] v.k = "string" -> Len(v.s) > 0
    [] v.k = "number" -> v.n # 0
    [] v.k = "boolean" -> v.b
    [] OTHER -> TRUE

\* x !== undefined
Defined(v) == v.k # "undefined"

\* x !== null && x !== undefined
NotNullish(v) == v.k # "undefined" /\ v.k # "null"

----------------------------------------------------------------------------
(* Texts *)

Whitespace == {" ", "\n", "\t", "\r"}

RECURSIVE TrimStart(_)
TrimStart(s) ==
  IF s = <<>> THEN <<>>
  ELSE IF Head(s) \in Whitespace THEN TrimStart(Tail(s)) ELSE s

RECURSIVE TrimEnd(_)
TrimEnd(s) ==
  IF s = <<>> THEN <<>>
  ELSE IF s[Len(s)] \in Whitespace THEN TrimEnd(SubSeq(s, 1, Len(s) - 1)) ELSE s

\* String.prototype.trim
Trim(s) == TrimEnd(TrimStart(s))

\* String.prototype.substring(0, n) for n >= 0
Substring0(s, n) == SubSeq(s, 1, IF n < Len(s) THEN n ELSE Len(s))

\* String.prototype.lastIndexOf(' '): the 0-based index, -1 when there is none
LastIndexOfSpace(s) ==
  LET idx == {i \in 1..Len(s) : s[i] = " "}
  IN  IF idx = {} THEN -1 ELSE (CHOOSE i \in idx : \A j \in idx : j <= i) - 1

Ellipsis == <<".", ".", ".">>

DigitChar == <<"0", "1", "2", "3", "4", "5", "6", "7", "8", "9">>

RECURSIVE NatText(_)
NatText(n) ==
  IF n < 10 THEN <<DigitChar[n + 1]>>
  ELSE NatText(n \div 10) \o <<DigitChar[(n % 10) + 1]>>

\* Number to string conversion of a template literal
NumText(n) == IF n < 0 THEN <<"-">> \o NatText(-n) ELSE NatText(n)

RECURSIVE JoinTexts(_, _)
JoinTexts(a, sep) ==
  IF a = <<>> THEN <<>>
  ELSE IF Len(a) = 1 THEN a[1]
  ELSE a[1] \o sep \o JoinTexts(Tail(a), sep)

\* `${v}` of a template literal
Interpolate(v) ==
  CASE v.k = "undefined" -> <<"u", "n", "d", "e", "f", "i", "n", "e", "d">>
    [] v.k = "null" -> <<"n", "u", "l", "l">>
    [] v.k = "string" -> v.s
    [] v.k = "number" -> NumText(v.n)
    [] v.k = "boolean" -> IF v.b THEN <<"t", "r", "u", "e">> ELSE <<"f", "a", "l", "s", "e">>
    [] OTHER -> <<"[", "o", "b", "j", "e", "c", "t", "]">>

----------------------------------------------------------------------------
(* text-truncation.ts *)

\* Mutant of truncateText: cuts at a space from 80% of maxLength on
truncateTextFrom80Percent(text, maxLength) ==
  IF Len(text) = 0 \/ Len(text) <= maxLength THEN text
  ELSE LET truncated == Substring0(text, maxLength)
           lastSpace == LastIndexOfSpace(truncated)
       IN  IF 10 * lastSpace >= 8 * maxLength
           THEN Substring0(truncated, lastSpace) \o Ellipsis
           ELSE truncated \o Ellipsis

truncateText(text, maxLength) ==
  IF Len(text) = 0 \/ Len(text) <= maxLength THEN text
  ELSE LET truncated == Substring0(text, maxLength)
           lastSpace == LastIndexOfSpace(truncated)
       IN  IF 10 * lastSpace > 8 * maxLength
           THEN Substring0(truncated, lastSpace) \o Ellipsis
           ELSE truncated \o Ellipsis

\* .replace(/\r\n/g, '\n')
RECURSIVE NormalizeLineEndings(_)
NormalizeLineEndings(s) ==
  IF s = <<>> THEN <<>>
  ELSE IF Len(s) >= 2 /\ s[1] = "\r" /\ s[2] = "\n"
       THEN <<"\n">> \o NormalizeLineEndings(SubSeq(s, 3, Len(s)))
       ELSE <<Head(s)>> \o NormalizeLineEndings(Tail(s))

\* length of the run of line breaks at the start of s
RECURSIVE BreakRun(_)
BreakRun(s) ==
  IF s = <<>> THEN 0
  ELSE IF Head(s) = "\n" THEN 1 + BreakRun(Tail(s)) ELSE 0

\* .replace(/\n{3,}/g, '\n\n')
RECURSIVE LimitLineBreaks(_)
LimitLineBreaks(s) ==
  IF s = <<>> THEN <<>>
  ELSE LET run == BreakRun(s)
       IN  IF run >= 3 THEN <<"\n", "\n">> \o LimitLineBreaks(SubSeq(s, run + 1, Len(s)))
           ELSE IF run >= 1 THEN SubSeq(s, 1, run) \o LimitLineBreaks(SubSeq(s, run + 1, Len(s)))
           ELSE <<Head(s)>> \o LimitLineBreaks(Tail(s))

\* Mutant of truncateDescription: cleans the description and does not cut it
truncateDescriptionUncut(description, maxLength) ==
  IF ~Truthy(description) THEN <<>>
  ELSE Trim(LimitLineBreaks(NormalizeLineEndings(description.s)))

truncateDescription(description, maxLength) ==
  IF ~Truthy(description) THEN <<>>
  ELSE LET cleaned == Trim(LimitLineBreaks(NormalizeLineEndings(description.s)))
       IN  IF Len(cleaned) <= maxLength THEN cleaned
           ELSE truncateText(cleaned, maxLength)

\* Mutant of Slice: a start of 0 counts from the end as a negative one does,
\* slice(-0) yields no element
SliceZeroFromEnd(a, start) ==
  LET len == Len(a)
      from == IF start <= 0
              THEN (IF len + start > 0 THEN len + start ELSE 0)
              ELSE (IF start > len THEN len ELSE start)
  IN  SubSeq(a, from + 1, len)

\* Array.prototype.slice(start)
Slice(a, start) ==
  LET len == Len(a)
      from == IF start < 0
              THEN (IF len + start > 0 THEN len + start ELSE 0)
              ELSE (IF start > len THEN len ELSE start)
  IN  SubSeq(a, from + 1, len)

DefaultMaxNoteLength == 100

\* Mutant of limitJournalEntries: keeps the first entries instead of the last
limitJournalEntriesFromStart(journals, maxEntries, maxNoteLength) ==
  IF ~Truthy(journals) \/ Len(journals.a) = 0 THEN <<>>
  ELSE LET limited == SubSeq(journals.a, 1,
                             IF maxEntries < Len(journals.a) THEN maxEntries ELSE Len(journals.a))
       IN  [i \in 1..Len(limited) |->
              [limited[i] EXCEPT !.notes =
                 IF Truthy(limited[i].notes)
                 THEN Str(truncateText(limited[i].notes.s, maxNoteLength))
                 ELSE limited[i].notes]]

limitJournalEntries(journals, maxEntries, maxNoteLength) ==
  IF ~Truthy(journals) \/ Len(journals.a) = 0 THEN <<>>
  ELSE LET limited == Slice(journals.a, -maxEntries)
       IN  [i \in 1..Len(limited) |->
              [limited[i] EXCEPT !.notes =
                 IF Truthy(limited[i].notes)
                 THEN Str(truncateText(limited[i].notes.s, maxNoteLength))
                 ELSE limited[i].notes]]

\* Array.prototype.slice(0, end)
SliceTo(a, end) ==
  LET len == Len(a)
      to == IF end < 0
            THEN (IF len + end > 0 THEN len + end ELSE 0)
            ELSE (IF end > len THEN len ELSE end)
  IN  SubSeq(a, 1, to)

DefaultMaxFields == 5

MaxSummaryLength == 50

\* `${field.name}: ${value}` of summarizeCustomFields
FieldSummary(field) ==
  LET value == IF field.value.k = "string" THEN truncateText(field.value.s, MaxSummaryLength)
               ELSE IF field.value.k = "array"
                    THEN truncateText(JoinTexts(field.value.a, <<",", " ">>), MaxSummaryLength)
                    ELSE <<>>
  IN  field.name \o <<":", " ">> \o value

summarizeCustomFields(customFields, maxFields) ==
  IF ~Truthy(customFields) \/ Len(customFields.a) = 0 THEN <<>>
  ELSE LET Keep(field) ==
             IF ~NotNullish(field.value) THEN FALSE
             ELSE IF field.value.k = "string" THEN Len(Trim(field.value.s)) > 0
             ELSE IF field.value.k = "array" THEN Len(field.value.a) > 0
             ELSE TRUE
           nonEmpty == SliceTo(SelectSeq(customFields.a, Keep), maxFields)
       IN  IF Len(nonEmpty) = 0 THEN <<>>
           ELSE JoinTexts([i \in 1..Len(nonEmpty) |-> FieldSummary(nonEmpty[i])], <<";", " ">>)

----------------------------------------------------------------------------
(* field-selector.ts *)

isCustomFieldNonEmpty(field) ==
  IF ~NotNullish(field.value) THEN FALSE
  ELSE IF field.value.k = "string" THEN Len(Trim(field.value.s)) > 0
  ELSE IF field.value.k = "array"
       THEN Len(field.value.a) > 0
            /\ \E i \in 1..Len(field.value.a) :
                  Len(field.value.a[i]) > 0 /\ Len(Trim(field.value.a[i])) > 0
  ELSE TRUE

skipEmptyCustomFields(customFields) ==
  LET Keep(field) ==
        IF ~NotNullish(field.value) THEN FALSE
        ELSE IF field.value.k = "string" THEN Len(Trim(field.value.s)) > 0
        ELSE IF field.value.k = "array"
             THEN Len(field.value.a) > 0
                  /\ \E i \in 1..Len(field.value.a) :
                        Len(field.value.a[i]) > 0 /\ Len(Trim(field.value.a[i])) > 0
        ELSE TRUE
  IN  SelectSeq(customFields, Keep)

\* Array.prototype.includes on an array of names
Includes(names, name) == \E i \in 1..Len(names) : names[i] = name

\* `Custom field "${requestedName}" not found or empty`
WarningText(requestedName) ==
  <<"C", "u", "s", "t", "o", "m", " ", "f", "i", "e", "l", "d", " ", "\"">>
  \o requestedName
  \o <<"\"", " ", "n", "o", "t", " ", "f", "o", "u", "n", "d", " ", "o", "r", " ", "e", "m", "p", "t", "y">>

\* the warnings loop of selectCustomFields over option[1..n]
RECURSIVE NameWarnings(_, _)
NameWarnings(customFields, option) ==
  IF option = <<>> THEN <<>>
  ELSE LET requestedName == Head(option)
           matches == {i \in 1..Len(customFields) : customFields[i].name = requestedName}
           \* Array.prototype.find: the first field of that name
           foundField == customFields[CHOOSE i \in matches : \A j \in matches : i <= j]
           warn == IF matches = {} THEN <<WarningText(requestedName)>>
                   ELSE IF ~isCustomFieldNonEmpty(foundField) THEN <<WarningText(requestedName)>>
                   ELSE <<>>
       IN  warn \o NameWarnings(customFields, Tail(option))

\* Mutant of selectCustomFields: the selected fields come out in reverse order
selectCustomFieldsReversed(customFields, option) ==
  IF option.k = "boolean" /\ option.b
  THEN [fields |-> skipEmptyCustomFields(customFields), warnings |-> <<>>]
  ELSE IF (option.k = "boolean" /\ ~option.b) \/ (option.k = "array" /\ Len(option.a) = 0)
  THEN [fields |-> <<>>, warnings |-> <<>>]
  ELSE IF option.k = "array"
  THEN LET Selected(field) == Includes(option.a, field.name) /\ isCustomFieldNonEmpty(field)
           kept == SelectSeq(customFields, Selected)
       IN  [fields |-> [i \in 1..Len(kept) |-> kept[Len(kept) + 1 - i]],
            warnings |-> NameWarnings(customFields, option.a)]
  ELSE [fields |-> <<>>, warnings |-> <<>>]

selectCustomFields(customFields, option) ==
  IF option.k = "boolean" /\ option.b
  THEN [fields |-> skipEmptyCustomFields(customFields), warnings |-> <<>>]
  ELSE IF (option.k = "boolean" /\ ~option.b) \/ (option.k = "array" /\ Len(option.a) = 0)
  THEN [fields |-> <<>>, warnings |-> <<>>]
  ELSE IF option.k = "array"
  THEN LET Selected(field) == Includes(option.a, field.name) /\ isCustomFieldNonEmpty(field)
       IN  [fields |-> SelectSeq(customFields, Selected),
            warnings |-> NameWarnings(customFields, option.a)]
  ELSE [fields |-> <<>>, warnings |-> <<>>]

\* the reduced record with nothing selected
EmptySelection ==
  [id |-> Undef, subject |-> Undef, project |-> Undef, tracker |-> Undef,
   status |-> Undef, priority |-> Undef, author |-> Undef, assigned_to |-> Undef,
   description |-> Undef, start_date |-> Undef, due_date |-> Undef,
   created_on |-> Undef, updated_on |-> Undef, closed_on |-> Undef,
   category |-> Undef, fixed_version |-> Undef, estimated_hours |-> Undef,
   spent_hours |-> Undef, done_ratio |-> Undef, custom_fields |-> Undef,
   journals |-> Undef, relations |-> Undef]

selectFields(issue, options) ==
  LET On(group) == Truthy(options[group])
      cf == IF On("custom_fields") /\ Truthy(issue.custom_fields)
            THEN selectCustomFields(issue.custom_fields.a, options.custom_fields)
            ELSE [fields |-> <<>>, warnings |-> <<>>]
      selected ==
        [EmptySelection EXCEPT
           !.id = issue.id,
           !.subject = issue.subject,
           !.project = issue.project,
           !.tracker = issue.tracker,
           !.status = issue.status,
           !.priority = issue.priority,
           !.author = issue.author,
           !.assigned_to = IF On("assignee") /\ Truthy(issue.assigned_to)
                           THEN issue.assigned_to ELSE Undef,
           !.description = IF On("description") /\ Truthy(issue.description)
                           THEN issue.description ELSE Undef,
           !.start_date = IF On("dates") /\ Truthy(issue.start_date)
                          THEN issue.start_date ELSE Undef,
           !.due_date = IF On("dates") /\ Truthy(issue.due_date)
                        THEN issue.due_date ELSE Undef,
           !.created_on = IF On("dates") THEN issue.created_on ELSE Undef,
           !.updated_on = IF On("dates") THEN issue.updated_on ELSE Undef,
           !.closed_on = IF On("dates") /\ Truthy(issue.closed_on)
                         THEN issue.closed_on ELSE Undef,
           !.category = IF On("category") /\ Truthy(issue.category)
                        THEN issue.category ELSE Undef,
           !.fixed_version = IF On("version") /\ Truthy(issue.fixed_version)
                             THEN issue.fixed_version ELSE Undef,
           !.estimated_hours = IF On("time_tracking") /\ Defined(issue.estimated_hours)
                               THEN issue.estimated_hours ELSE Undef,
           !.spent_hours = IF On("time_tracking") /\ Defined(issue.spent_hours)
                           THEN issue.spent_hours ELSE Undef,
           !.done_ratio = IF On("time_tracking") /\ Defined(issue.done_ratio)
                          THEN issue.done_ratio ELSE Undef,
           !.custom_fields = IF On("custom_fields") /\ Truthy(issue.custom_fields)
                             THEN Arr(cf.fields) ELSE Undef,
           !.journals = IF On("journals") /\ Truthy(issue.journals)
                        THEN issue.journals ELSE Undef,
           !.relations = IF On("relations") /\ Truthy(issue.relations)
                         THEN issue.relations ELSE Undef]
  IN  [issue |-> selected,
       warnings |-> IF Len(cf.warnings) > 0 THEN Arr(cf.warnings) ELSE Undef]

----------------------------------------------------------------------------
(* format-options.ts *)

Truncated == Str(<<"t", "r", "u", "n", "c", "a", "t", "e", "d">>)

DefaultMaxDescriptionLength == 200

DefaultMaxJournalEntries == 3

\* a BriefFieldOptions object
Policy(assignee, description, custom_fields, dates, category, version, time_tracking, journals, relations, attachments) ==
  [k |-> "object", assignee |-> assignee, description |-> description,
   custom_fields |-> custom_fields, dates |-> dates, category |-> category,
   version |-> version, time_tracking |-> time_tracking, journals |-> journals,
   relations |-> relations, attachments |-> attachments]

createDefaultBriefFields ==
  Policy(Bool(TRUE), Bool(FALSE), Bool(FALSE), Bool(TRUE), Bool(FALSE),
         Bool(FALSE), Bool(FALSE), Bool(FALSE), Bool(FALSE), Bool(FALSE))

\* a FormatOptions object
FormatOptions(detail_level, brief_fields, max_description_length, max_journal_entries) ==
  [k |-> "object", detail_level |-> detail_level, brief_fields |-> brief_fields,
   max_description_length |-> max_description_length,
   max_journal_entries |-> max_journal_entries]

DEFAULT_FORMAT_OPTIONS ==
  FormatOptions("full", Undef, Num(DefaultMaxDescriptionLength), Num(DefaultMaxJournalEntries))

Max(a, b) == IF a > b THEN a ELSE b

Min(a, b) == IF a < b THEN a ELSE b

LowerOf(c) ==
  CASE c = "B" -> "b" [] c = "R" -> "r" [] c = "I" -> "i" [] c = "E" -> "e"
    [] c = "F" -> "f" [] c = "U" -> "u" [] c = "L" -> "l" [] OTHER -> c

\* String.prototype.toLowerCase, on the letters of the detail levels
ToLowerCase(s) == [i \in 1..Len(s) |-> LowerOf(s[i])]

Brief == <<"b", "r", "i", "e", "f">>

Full == <<"f", "u", "l", "l">>

\* typeof v === 'string'
IsString(v) == v.k = "string"

\* a string argument holding JSON text: json is the value JSON.parse returns for
\* it, or Invalid when JSON.parse throws
JsonText(v) == [k |-> "string", json |-> v]

Invalid == [k |-> "invalid"]

\* Mutant of parseFormatOptions: the error of JSON.parse is not caught
parseFormatOptionsNoCatch(a) ==
  LET Has(key) == key \in DOMAIN a
      level == IF Has("detail_level") /\ IsString(a["detail_level"])
               THEN ToLowerCase(a["detail_level"].s) ELSE <<>>
      o1 == IF level = Brief THEN [DEFAULT_FORMAT_OPTIONS EXCEPT !.detail_level = "brief"]
            ELSE IF level = Full THEN [DEFAULT_FORMAT_OPTIONS EXCEPT !.detail_level = "full"]
            ELSE DEFAULT_FORMAT_OPTIONS
      o2 == IF Has("brief_fields") /\ IsString(a["brief_fields"])
               /\ a["brief_fields"].json # Invalid
            THEN [o1 EXCEPT !.brief_fields = a["brief_fields"].json]
            ELSE o1
      o3 == IF Has("max_description_length") /\ a["max_description_length"].k = "number"
            THEN [o2 EXCEPT !.max_description_length =
                    Num(Max(50, Min(1000, a["max_description_length"].n)))]
            ELSE o2
      o4 == IF Has("max_journal_entries") /\ a["max_journal_entries"].k = "number"
            THEN [o3 EXCEPT !.max_journal_entries =
                    Num(Max(0, Min(10, a["max_journal_entries"].n)))]
            ELSE o3
  IN  IF Has("brief_fields") /\ IsString(a["brief_fields"]) /\ a["brief_fields"].json = Invalid
      THEN [k |-> "threw"]
      ELSE o4

\* Mutant of parseFormatOptions: max_description_length has no lower limit
parseFormatOptionsNoMinimum(a) ==
  LET Has(key) == key \in DOMAIN a
      level == IF Has("detail_level") /\ IsString(a["detail_level"])
               THEN ToLowerCase(a["detail_level"].s) ELSE <<>>
      o1 == IF level = Brief THEN [DEFAULT_FORMAT_OPTIONS EXCEPT !.detail_level = "brief"]
            ELSE IF level = Full THEN [DEFAULT_FORMAT_OPTIONS EXCEPT !.detail_level = "full"]
            ELSE DEFAULT_FORMAT_OPTIONS
      o2 == IF Has("brief_fields") /\ IsString(a["brief_fields"])
               /\ a["brief_fields"].json # Invalid
            THEN [o1 EXCEPT !.brief_fields = a["brief_fields"].json]
            ELSE o1
      o3 == IF Has("max_description_length") /\ a["max_description_length"].k = "number"
            THEN [o2 EXCEPT !.max_description_length =
                    Num(Min(1000, a["max_description_length"].n))]
            ELSE o2
      o4 == IF Has("max_journal_entries") /\ a["max_journal_entries"].k = "number"
            THEN [o3 EXCEPT !.max_journal_entries =
                    Num(Max(0, Min(10, a["max_journal_entries"].n)))]
            ELSE o3
  IN  o4

\* args is a function from the argument names present to their values
parseFormatOptions(a) ==
  LET Has(key) == key \in DOMAIN a
      level == IF Has("detail_level") /\ IsString(a["detail_level"])
               THEN ToLowerCase(a["detail_level"].s) ELSE <<>>
      o1 == IF level = Brief THEN [DEFAULT_FORMAT_OPTIONS EXCEPT !.detail_level = "brief"]
            ELSE IF level = Full THEN [DEFAULT_FORMAT_OPTIONS EXCEPT !.detail_level = "full"]
            ELSE DEFAULT_FORMAT_OPTIONS
      o2 == IF Has("brief_fields") /\ IsString(a["brief_fields"])
               /\ a["brief_fields"].json # Invalid
            THEN [o1 EXCEPT !.brief_fields = a["brief_fields"].json]
            ELSE o1
      o3 == IF Has("max_description_length") /\ a["max_description_length"].k = "number"
            THEN [o2 EXCEPT !.max_description_length =
                    Num(Max(50, Min(1000, a["max_description_length"].n)))]
            ELSE o2
      o4 == IF Has("max_journal_entries") /\ a["max_journal_entries"].k = "number"
            THEN [o3 EXCEPT !.max_journal_entries =
                    Num(Max(0, Min(10, a["max_journal_entries"].n)))]
            ELSE o3
  IN  o4

----------------------------------------------------------------------------
(* issues.ts *)

\* String.prototype.replace(/[c]/g, r)
RECURSIVE ReplaceChar(_, _, _)
ReplaceChar(s, c, r) ==
  IF s = <<>> THEN <<>>
  ELSE (IF Head(s) = c THEN r ELSE <<Head(s)>>) \o ReplaceChar(Tail(s), c, r)

escapeXml(unsafe) ==
  IF ~NotNullish(unsafe) THEN <<>>
  ELSE LET s1 == ReplaceChar(unsafe.s, "&", <<"&", "a", "m", "p", ";">>)
           s2 == ReplaceChar(s1, "<", <<"&", "l", "t", ";">>)
           s3 == ReplaceChar(s2, ">", <<"&", "g", "t", ";">>)
           s4 == ReplaceChar(s3, "\"", <<"&", "q", "u", "o", "t", ";">>)
           s5 == ReplaceChar(s4, "'", <<"&", "a", "p", "o", "s", ";">>)
       IN  s5

\* one rendered element <tag>text</tag>
El(tag, text) == [tag |-> tag, text |-> text]

\* obj?.name
NameOf(obj) == IF NotNullish(obj) THEN Str(obj.name) ELSE Undef

RECURSIVE Flatten(_)
Flatten(seqs) == IF seqs = <<>> THEN <<>> ELSE Head(seqs) \o Flatten(Tail(seqs))

formatCustomFields(fields) ==
  <<El("custom_fields", <<>>)>>
  \o Flatten([i \in 1..Len(fields) |->
       <<El("field", <<>>),
         El("field.id", NumText(fields[i].id)),
         El("field.name", escapeXml(Str(fields[i].name))),
         El("field.value",
            IF ~NotNullish(fields[i].value) THEN <<>>
            ELSE IF fields[i].value.k = "array"
                 THEN escapeXml(Str(JoinTexts(fields[i].value.a, <<",", " ">>)))
                 ELSE escapeXml(fields[i].value))>>])

formatDetails(details) ==
  <<El("details", <<>>)>>
  \o Flatten([i \in 1..Len(details) |->
       <<El("detail", <<>>),
         El("detail.property", escapeXml(Str(details[i].property))),
         El("detail.name", escapeXml(Str(details[i].name)))>>
       \o (IF NotNullish(details[i].old_value)
           THEN <<El("detail.old_value", escapeXml(details[i].old_value))>> ELSE <<>>)
       \o (IF NotNullish(details[i].new_value)
           THEN <<El("detail.new_value", escapeXml(details[i].new_value))>> ELSE <<>>)])

formatJournals(journals) ==
  <<El("journals", <<>>)>>
  \o Flatten([i \in 1..Len(journals) |->
       <<El("journal", <<>>),
         El("journal.id", NumText(journals[i].id)),
         El("journal.user", escapeXml(Str(journals[i].user.name))),
         El("journal.created_on", journals[i].created_on)>>
       \o (IF Truthy(journals[i].private_notes)
           THEN <<El("journal.private_notes", <<"t", "r", "u", "e">>)>> ELSE <<>>)
       \o (IF NotNullish(journals[i].notes)
           THEN <<El("journal.notes", escapeXml(journals[i].notes))>> ELSE <<>>)
       \o (IF Truthy(journals[i].details) /\ Len(journals[i].details.a) > 0
           THEN formatDetails(journals[i].details.a) ELSE <<>>)])

\* Mutant of briefEssentials: the subject is written before the id
briefEssentialsSubjectFirst(selectedIssue) ==
  <<El("issue", <<>>),
    El("subject", escapeXml(selectedIssue.subject)),
    El("id", Interpolate(selectedIssue.id)),
    El("project", escapeXml(NameOf(selectedIssue.project))),
    El("tracker", escapeXml(NameOf(selectedIssue.tracker))),
    El("status", escapeXml(NameOf(selectedIssue.status))),
    El("priority", escapeXml(NameOf(selectedIssue.priority)))>>

\* Mutant of briefEssentials: the priority element is left out
briefEssentialsNoPriority(selectedIssue) ==
  <<El("issue", <<>>),
    El("id", Interpolate(selectedIssue.id)),
    El("subject", escapeXml(selectedIssue.subject)),
    El("project", escapeXml(NameOf(selectedIssue.project))),
    El("tracker", escapeXml(NameOf(selectedIssue.tracker))),
    El("status", escapeXml(NameOf(selectedIssue.status)))>>

\* the opening of the brief output: the essential fields
briefEssentials(selectedIssue) ==
  <<El("issue", <<>>),
    El("id", Interpolate(selectedIssue.id)),
    El("subject", escapeXml(selectedIssue.subject)),
    El("project", escapeXml(NameOf(selectedIssue.project))),
    El("tracker", escapeXml(NameOf(selectedIssue.tracker))),
    El("status", escapeXml(NameOf(selectedIssue.status))),
    El("priority", escapeXml(NameOf(selectedIssue.priority)))>>

formatIssueBrief(issue, options, maxDescLength, maxJournalEntries) ==
  LET selectionResult == selectFields(issue, options)
      selectedIssue == selectionResult.issue
      On(group) == Truthy(options[group])
      head == briefEssentials(selectedIssue)
      warnings ==
        IF Truthy(selectionResult.warnings) /\ Len(selectionResult.warnings.a) > 0
        THEN <<El("warnings", <<>>)>>
             \o [i \in 1..Len(selectionResult.warnings.a) |->
                   El("warning", escapeXml(Str(selectionResult.warnings.a[i])))]
        ELSE <<>>
      assigned ==
        IF Truthy(selectedIssue.assigned_to)
        THEN <<El("assigned_to", escapeXml(Str(selectedIssue.assigned_to.name)))>>
        ELSE <<>>
      truncatedDesc == truncateDescription(selectedIssue.description, maxDescLength)
      description ==
        IF Truthy(selectedIssue.description) /\ On("description")
        THEN IF options.description = Truncated
             THEN (IF Len(truncatedDesc) > 0
                   THEN <<El("description", escapeXml(Str(truncatedDesc)))>> ELSE <<>>)
             ELSE IF options.description = Bool(TRUE)
                  THEN <<El("description", escapeXml(selectedIssue.description))>>
                  ELSE <<>>
        ELSE <<>>
      category ==
        IF Truthy(selectedIssue.category) /\ On("category")
        THEN <<El("category", escapeXml(Str(selectedIssue.category.name)))>> ELSE <<>>
      version ==
        IF Truthy(selectedIssue.fixed_version) /\ On("version")
        THEN <<El("version", escapeXml(Str(selectedIssue.fixed_version.name)))>> ELSE <<>>
      dates ==
        IF On("dates")
        THEN (IF Truthy(selectedIssue.start_date)
              THEN <<El("start_date", Interpolate(selectedIssue.start_date))>> ELSE <<>>)
             \o (IF Truthy(selectedIssue.due_date)
                 THEN <<El("due_date", Interpolate(selectedIssue.due_date))>> ELSE <<>>)
             \o <<El("created_on", Interpolate(selectedIssue.created_on)),
                  El("updated_on", Interpolate(selectedIssue.updated_on))>>
        ELSE <<>>
      timeTracking ==
        IF On("time_tracking")
        THEN (IF Defined(selectedIssue.done_ratio)
              THEN <<El("progress", Interpolate(selectedIssue.done_ratio) \o <<"%">>)>>
              ELSE <<>>)
             \o (IF Defined(selectedIssue.estimated_hours)
                 THEN <<El("estimated_hours", Interpolate(selectedIssue.estimated_hours))>>
                 ELSE <<>>)
             \o (IF Defined(selectedIssue.spent_hours)
                 THEN <<El("spent_hours", Interpolate(selectedIssue.spent_hours))>>
                 ELSE <<>>)
        ELSE <<>>
      customFields ==
        IF Truthy(selectedIssue.custom_fields) /\ On("custom_fields")
           /\ Len(selectedIssue.custom_fields.a) > 0
        THEN formatCustomFields(selectedIssue.custom_fields.a) ELSE <<>>
      limitedJournals ==
        limitJournalEntries(selectedIssue.journals, maxJournalEntries, DefaultMaxNoteLength)
      journals ==
        IF Truthy(selectedIssue.journals) /\ On("journals") /\ Len(limitedJournals) > 0
        THEN formatJournals(limitedJournals) ELSE <<>>
  IN  head \o warnings \o assigned \o description \o category \o version
      \o dates \o timeTracking \o customFields \o journals

\* Mutant of formatIssueFull: only the six leading elements are written
formatIssueFullEssentials(issue) ==
  <<El("issue", <<>>),
    El("id", Interpolate(issue.id)),
    El("subject", escapeXml(issue.subject)),
    El("project", escapeXml(NameOf(issue.project))),
    El("tracker", escapeXml(NameOf(issue.tracker))),
    El("status", escapeXml(NameOf(issue.status))),
    El("priority", escapeXml(NameOf(issue.priority)))>>

formatIssueFull(issue) ==
  LET safeDescription == escapeXml(issue.description)
      Opt(cond, el) == IF cond THEN <<el>> ELSE <<>>
  IN  <<El("issue", <<>>),
        El("id", Interpolate(issue.id)),
        El("subject", escapeXml(issue.subject)),
        El("project", escapeXml(NameOf(issue.project))),
        El("tracker", escapeXml(NameOf(issue.tracker))),
        El("status", escapeXml(NameOf(issue.status))),
        El("priority", escapeXml(NameOf(issue.priority)))>>
      \o Opt(Truthy(issue.author), El("author", escapeXml(NameOf(issue.author))))
      \o Opt(Truthy(issue.assigned_to), El("assigned_to", escapeXml(NameOf(issue.assigned_to))))
      \o Opt(Truthy(issue.category), El("category", escapeXml(NameOf(issue.category))))
      \o Opt(Truthy(issue.fixed_version), El("version", escapeXml(NameOf(issue.fixed_version))))
      \o Opt(Truthy(issue.parent),
             El("parent_id", IF NotNullish(issue.parent) THEN NumText(issue.parent.id) ELSE <<>>))
      \o Opt(Truthy(issue.start_date), El("start_date", Interpolate(issue.start_date)))
      \o Opt(Truthy(issue.due_date), El("due_date", Interpolate(issue.due_date)))
      \o Opt(Defined(issue.done_ratio), El("progress", Interpolate(issue.done_ratio) \o <<"%">>))
      \o Opt(Defined(issue.estimated_hours),
             El("estimated_hours", Interpolate(issue.estimated_hours)))
      \o Opt(Defined(issue.spent_hours), El("spent_hours", Interpolate(issue.spent_hours)))
      \o Opt(Len(safeDescription) > 0, El("description", safeDescription))
      \o (IF NotNullish(issue.custom_fields) /\ Len(issue.custom_fields.a) > 0
          THEN formatCustomFields(issue.custom_fields.a) ELSE <<>>)
      \o (IF NotNullish(issue.journals) /\ Len(issue.journals.a) > 0
          THEN formatJournals(issue.journals.a) ELSE <<>>)
      \o Opt(Truthy(issue.created_on), El("created_on", Interpolate(issue.created_on)))
      \o Opt(Truthy(issue.updated_on), El("updated_on", Interpolate(issue.updated_on)))
      \o Opt(Truthy(issue.closed_on), El("closed_on", Interpolate(issue.closed_on)))

\* x || d for a numeric option
OrDefault(x, d) == IF Truthy(x) THEN x.n ELSE d

\* the brief-mode arguments formatIssue passes to formatIssueBrief
BriefArguments(options) ==
  [briefFields |-> IF Truthy(options.brief_fields)
                   THEN options.brief_fields ELSE createDefaultBriefFields,
   maxDescLength |-> OrDefault(options.max_description_length, 200),
   maxJournalEntries |-> OrDefault(options.max_journal_entries, 3)]

\* Mutant of formatIssue: a relations element is written for an issue that
\* has relations
formatIssueWithRelations(issue, options) ==
  LET b == BriefArguments(options)
      doc == IF ~Truthy(options) \/ options.detail_level = "full"
             THEN formatIssueFull(issue)
             ELSE formatIssueBrief(issue, b.briefFields, b.maxDescLength,
                                   b.maxJournalEntries)
  IN  doc \o (IF Truthy(issue.relations) THEN <<El("relations", <<>>)>> ELSE <<>>)

formatIssue(issue, options) ==
  IF ~Truthy(options) \/ options.detail_level = "full"
  THEN formatIssueFull(issue)
  ELSE LET b == BriefArguments(options)
       IN  formatIssueBrief(issue, b.briefFields, b.maxDescLength, b.maxJournalEntries)

\* the name written between < and > for an element
TagName(tag) ==
  CASE tag \in {"field.id", "journal.id"} -> "id"
    [] tag \in {"field.name", "detail.name"} -> "name"
    [] tag = "field.value" -> "value"
    [] tag = "journal.user" -> "user"
    [] tag = "journal.created_on" -> "created_on"
    [] tag = "journal.private_notes" -> "private_notes"
    [] tag = "journal.notes" -> "notes"
    [] tag = "detail.property" -> "property"
    [] tag = "detail.old_value" -> "old_value"
    [] tag = "detail.new_value" -> "new_value"
    [] OTHER -> tag

\* the characters of <name>text</name>
ElementLength(e) == 2 * Len(TagName(e.tag)) + 5 + Len(e.text)

\* the characters of "\n" and n spaces
Indented(n) == 1 + n

\* the `${...}` lines of the full-mode template after <priority>: each line is
\* written, empty or not
FullOptionalLines == 16

\* the characters an element of the output stands for in the string the
\* formatter returns, its line break and indentation included; an element that
\* encloses others counts its opening and closing tag and the lines of its
\* template that may stay empty
Characters(e, full) ==
  CASE e.tag = "issue" ->
         Len("<issue>") + Indented(0) + Len("</issue>")
         + (IF full THEN FullOptionalLines * Indented(2) ELSE 0)
    [] e.tag \in {"id", "subject", "project", "tracker", "status", "priority"} ->
         Indented(2) + ElementLength(e)
    [] e.tag = "warnings" ->
         Indented(2) + Len("<warnings>") + Indented(2) + Len("</warnings>")
    [] e.tag = "warning" -> Indented(4) + ElementLength(e)
    [] e.tag = "custom_fields" ->
         Indented(2) + Len("<custom_fields>") + Indented(4)
         + Indented(2) + Len("</custom_fields>")
    [] e.tag = "field" -> Indented(4) + Len("<field>") + Indented(4) + Len("</field>")
    [] e.tag \in {"field.id", "field.name", "field.value"} -> Indented(6) + ElementLength(e)
    [] e.tag = "journals" ->
         Indented(2) + Len("<journals>") + Indented(4) + Indented(2) + Len("</journals>")
    [] e.tag = "journal" ->
         Indented(4) + Len("<journal>") + 3 * Indented(6) + Indented(4) + Len("</journal>")
    [] e.tag \in {"journal.id", "journal.user", "journal.created_on"} ->
         Indented(6) + ElementLength(e)
    [] e.tag \in {"journal.private_notes", "journal.notes"} -> ElementLength(e)
    [] e.tag = "details" ->
         Indented(6) + Len("<details>") + Indented(8) + Indented(6) + Len("</details>")
    [] e.tag = "detail" ->
         Indented(8) + Len("<detail>") + 2 * Indented(10) + Indented(8) + Len("</detail>")
    [] e.tag \in {"detail.property", "detail.name"} -> Indented(10) + ElementLength(e)
    [] e.tag \in {"detail.old_value", "detail.new_value"} -> ElementLength(e)
    [] OTHER -> IF full THEN ElementLength(e) ELSE Indented(2) + ElementLength(e)

\* .length of the string formatIssue returns for the output: full tells the
\* full-mode template from the brief-mode concatenation
RECURSIVE OutputLength(_, _)
OutputLength(doc, full) ==
  IF doc = <<>> THEN 0 ELSE Characters(Head(doc), full) + OutputLength(Tail(doc), full)

----------------------------------------------------------------------------
(* Inputs the functions are applied to *)

MaxJournals == 5

MaxCustomFields == 2

MaxRequested == 2

\* a journal note longer than the default note limit is not needed to see the
\* limit act: the note limit is a parameter of limitJournalEntries
NotePool ==
  <<Str(<<"n", "o", "t", "e", " ", "o", "n", "e">>), Undef, Null, Str(<<>>)>>

JournalEntry(i, shift) ==
  [id |-> i,
   user |-> [id |-> 1, name |-> <<"U", "&">>],
   notes |-> NotePool[((i + shift) % Len(NotePool)) + 1],
   private_notes |-> IF i % 2 = 0 THEN Bool(TRUE) ELSE Undef,
   created_on |-> <<"d">> \o NatText(i),
   details |-> IF i % 3 = 0
               THEN Arr(<<[property |-> <<"a", "t", "t", "r">>, name |-> <<"s">>,
                           old_value |-> Null, new_value |-> Str(<<"2">>)]>>)
               ELSE Undef]

\* n journal entries in chronological order, ids 1..n
JournalList(n, shift) == Arr([i \in 1..n |-> JournalEntry(i, shift)])

JournalLists == {Undef} \cup {JournalList(n, shift) : n \in 0..MaxJournals, shift \in 0..1}

FieldNames == {<<"A">>, <<"B">>}

RequestedNames == FieldNames \cup {<<"Z">>}

FieldValues == {Str(<<"x">>), Null, Str(<<" ">>), Arr(<<<<>>, <<" ">>>>), Arr(<<<<"v">>, <<"w">>>>)}

CustomField(id, name, value) == [id |-> id, name |-> name, value |-> value]

\* all lists of at most n elements of S
SeqsUpTo(S, n) == UNION {[1..m -> S] : m \in 0..n}

CustomFieldLists ==
  {[i \in 1..Len(l) |-> CustomField(i, l[i][1], l[i][2])] :
     l \in SeqsUpTo(FieldNames \X FieldValues, MaxCustomFields)}

NameLists == SeqsUpTo(RequestedNames, MaxRequested)

Date == Str(<<"2", "0", "2", "4">>)

LongDescription ==
  Str(<<"a", "b", " ", "c", "d", " ", "e", "f", "\r", "\n", "\n", "\n", "g", "<", "h">>)

\* an issue with every optional field absent
MinimalIssue ==
  [id |-> Num(1001), subject |-> Str(<<"s", "&", "t">>),
   project |-> Obj(1, <<"P">>), tracker |-> Obj(1, <<"T">>),
   status |-> Obj(1, <<"N">>), priority |-> Obj(2, <<"H">>),
   author |-> Obj(1, <<"A", "u">>), assigned_to |-> Undef, category |-> Undef,
   fixed_version |-> Undef, parent |-> Undef, description |-> Undef,
   start_date |-> Undef, due_date |-> Undef, done_ratio |-> Num(0),
   estimated_hours |-> Undef, spent_hours |-> Undef, custom_fields |-> Undef,
   created_on |-> Date, updated_on |-> Date, closed_on |-> Undef,
   relations |-> Undef, journals |-> Undef]

Relation == [id |-> 1, issue_id |-> 1, issue_to_id |-> 3, relation_type |-> <<"r">>, delay |-> Null]

\* an issue with every optional field populated
CompleteIssue ==
  [MinimalIssue EXCEPT
     !.id = Num(1002),
     !.assigned_to = Obj(2, <<"A", "s">>),
     !.category = Obj(1, <<"C">>),
     !.fixed_version = Obj(1, <<"V">>),
     !.parent = Obj(2, <<>>),
     !.description = LongDescription,
     !.start_date = Date,
     !.due_date = Date,
     !.done_ratio = Num(75),
     !.estimated_hours = Num(40),
     !.spent_hours = Num(30),
     !.custom_fields = Arr(<<CustomField(1, <<"A">>, Str(<<"x">>)),
                             CustomField(2, <<"B">>, Null)>>),
     !.closed_on = Date,
     !.relations = Arr(<<Relation>>),
     !.journals = JournalList(MaxJournals, 0)]

\* the values each field of an issue is drawn from
FieldDomain(f) ==
  CASE f \in {"assigned_to", "category", "fixed_version"} -> {Undef, Obj(2, <<"X", "<">>)}
    [] f = "author" -> {Undef, Obj(1, <<"A", "u">>)}
    [] f = "parent" -> {Undef, Obj(2, <<>>)}
    [] f = "description" ->
         {Undef, Null, Str(<<>>), Str(<<" ", "\n">>), Str(<<"o", "k">>), LongDescription}
    [] f \in {"start_date", "due_date", "closed_on"} -> {Undef, Null, Str(<<>>), Date}
    [] f = "done_ratio" -> {Num(0), Num(75)}
    [] f = "estimated_hours" -> {Undef, Null, Num(0), Num(40)}
    [] f = "spent_hours" -> {Undef, Num(0), Num(30)}
    [] f = "custom_fields" -> {Undef} \cup {Arr(l) : l \in {c \in CustomFieldLists : Len(c) <= 1}}
    [] f = "journals" -> JournalLists
    [] f = "relations" -> {Undef, Arr(<<>>), Arr(<<Relation>>)}

OptionalFields ==
  {"assigned_to", "category", "fixed_version", "author", "parent", "description",
   "start_date", "due_date", "closed_on", "done_ratio", "estimated_hours",
   "spent_hours", "custom_fields", "journals", "relations"}

\* the minimal and the complete issue, and each of them with one field changed
Issues ==
  {[b EXCEPT ![f] = v] : <<b, f, v>> \in
     UNION {{<<b, f, v>> : v \in FieldDomain(f)} :
              <<b, f>> \in {MinimalIssue, CompleteIssue} \X OptionalFields}}

AllOff ==
  Policy(Bool(FALSE), Bool(FALSE), Bool(FALSE), Bool(FALSE), Bool(FALSE),
         Bool(FALSE), Bool(FALSE), Bool(FALSE), Bool(FALSE), Bool(FALSE))

AllOn ==
  Policy(Bool(TRUE), Truncated, Bool(TRUE), Bool(TRUE), Bool(TRUE),
         Bool(TRUE), Bool(TRUE), Bool(TRUE), Bool(TRUE), Bool(TRUE))

\* the empty object {}
NoGroups ==
  Policy(Undef, Undef, Undef, Undef, Undef, Undef, Undef, Undef, Undef, Undef)

BooleanGroups ==
  {"assignee", "dates", "category", "version", "time_tracking", "journals",
   "relations", "attachments"}

GroupDomain(g) ==
  CASE g \in BooleanGroups -> {Bool(FALSE), Bool(TRUE), Undef}
    [] g = "description" -> {Bool(FALSE), Bool(TRUE), Truncated, Str(<<"f", "u", "l", "l">>), Undef}
    [] g = "custom_fields" ->
         {Bool(FALSE), Bool(TRUE), Undef} \cup {Arr(l) : l \in {n \in NameLists : Len(n) <= 1}}

\* each base policy, and each of them with one group changed
Policies ==
  {[b EXCEPT ![g] = v] : <<b, g, v>> \in
     UNION {{<<b, g, v>> : v \in GroupDomain(g)} :
              <<b, g>> \in {AllOff, AllOn, createDefaultBriefFields}
                           \X (BooleanGroups \cup {"description", "custom_fields"})}}

----------------------------------------------------------------------------
(* formatIssues *)

\* the <issues .../> wrapper; its text holds total_count, offset and limit
\* the <issues type="array" ...> element with its attributes: self-closed, or
\* opened around the issue elements that follow it
IssuesElement(selfClosed, total_count, offset, limit) ==
  [tag |-> "issues", text |-> <<>>, selfClosed |-> selfClosed,
   total_count |-> total_count, offset |-> offset, limit |-> limit]

\* Mutant of formatIssues: the counts are interpolated without `|| 0`
formatIssuesNoDefault(response, options) ==
  IF ~Truthy(response) \/ ~Truthy(response.issues) \/ response.issues.k # "array"
     \/ Len(response.issues.a) = 0
  THEN <<IssuesElement(TRUE, <<"0">>, <<"0">>, <<"0">>)>>
  ELSE <<IssuesElement(FALSE, Interpolate(response.total_count),
                       Interpolate(response.offset), Interpolate(response.limit))>>
       \o Flatten([i \in 1..Len(response.issues.a) |->
                     formatIssue(response.issues.a[i], options)])

formatIssues(response, options) ==
  IF ~Truthy(response) \/ ~Truthy(response.issues) \/ response.issues.k # "array"
     \/ Len(response.issues.a) = 0
  THEN <<IssuesElement(TRUE, <<"0">>, <<"0">>, <<"0">>)>>
  ELSE <<IssuesElement(FALSE, NumText(OrDefault(response.total_count, 0)),
                       NumText(OrDefault(response.offset, 0)),
                       NumText(OrDefault(response.limit, 0)))>>
       \o Flatten([i \in 1..Len(response.issues.a) |->
                     formatIssue(response.issues.a[i], options)])

----------------------------------------------------------------------------
(* handlers/issues.ts *)

Handlers == {"list_issues", "get_issue", "create_issue", "update_issue"}

\* an Error object; validation is TRUE for a ValidationError
Error(message, validation) ==
  [k |-> "object", error |-> TRUE, message |-> message, validation |-> validation]

\* a thrown value that is not an Error; str is what String(value) yields
Thrown(str) == [k |-> "object", error |-> FALSE, message |-> str, validation |-> FALSE]

Ok(value) == [ok |-> TRUE, value |-> value]

Fail(err) == [ok |-> FALSE, error |-> err]

IsDigits(s) == Len(s) > 0 /\ \A i \in 1..Len(s) : \E d \in 1..10 : DigitChar[d] = s[i]

RECURSIVE ParseDigits(_)
ParseDigits(s) ==
  IF s = <<>> THEN 0
  ELSE 10 * ParseDigits(SubSeq(s, 1, Len(s) - 1))
       + (CHOOSE d \in 0..9 : DigitChar[d + 1] = s[Len(s)])

\* strict numeric coercion of handlers/types.ts
asNumber(v) ==
  IF v.k = "number" THEN Ok(v.n)
  ELSE IF v.k = "string" /\ "s" \in DOMAIN v /\ IsDigits(v.s) THEN Ok(ParseDigits(v.s))
  ELSE Fail(Error("Invalid number", TRUE))

DefaultLimit == 25

\* pagination defaults of handlers/types.ts
extractPaginationParams(a) ==
  LET limit == IF "limit" \in DOMAIN a THEN asNumber(a["limit"]) ELSE Ok(DefaultLimit)
      offset == IF "offset" \in DOMAIN a THEN asNumber(a["offset"]) ELSE Ok(0)
  IN  IF ~limit.ok THEN limit
      ELSE IF ~offset.ok THEN offset
      ELSE Ok([limit |-> limit.value, offset |-> offset.value])

\* String(value)
StringOf(v) == Interpolate(v)

\* Boolean(value)
BooleanOf(v) == Bool(Truthy(v))

FilterNames == <<"subject", "description", "notes">>

FilterArg == [subject |-> "subject_filter", description |-> "description_filter",
              notes |-> "notes_filter"]

OpKey == [subject |-> "op[subject]", description |-> "op[description]", notes |-> "op[notes]"]

ValueKey == [subject |-> "v[subject][]", description |-> "v[description][]",
             notes |-> "v[notes][]"]

FilterText ==
  [subject |-> <<"s", "u", "b", "j", "e", "c", "t">>,
   description |-> <<"d", "e", "s", "c", "r", "i", "p", "t", "i", "o", "n">>,
   notes |-> <<"n", "o", "t", "e", "s">>]

\* the object with no properties
EmptyObject == <<>>

RECURSIVE MergeAll(_)
MergeAll(objs) == IF objs = <<>> THEN EmptyObject ELSE Head(objs) @@ MergeAll(Tail(objs))

\* Mutant of buildTextFilterParams: a filter is active when it is non-empty,
\* without trimming
buildTextFilterParamsUntrimmed(textFilters) ==
  LET Active(f) == Truthy(textFilters[FilterArg[f]])
      activeFilters == SelectSeq(FilterNames, Active)
      filterParams ==
        MergeAll([i \in 1..Len(activeFilters) |->
                    (OpKey[activeFilters[i]] :> Str(<<"~">>))
                    @@ (ValueKey[activeFilters[i]] :> textFilters[FilterArg[activeFilters[i]]])])
  IN  IF Len(activeFilters) > 0
      THEN ("f[]" :> Str(JoinTexts([i \in 1..Len(activeFilters) |-> FilterText[activeFilters[i]]],
                                   <<",">>)))
           @@ filterParams
      ELSE filterParams

\* textFilters maps subject_filter, description_filter and notes_filter to the
\* value of the parameter, undefined when it was not set
buildTextFilterParams(textFilters) ==
  LET Active(f) == Truthy(textFilters[FilterArg[f]])
                   /\ Trim(textFilters[FilterArg[f]].s) # <<>>
      activeFilters == SelectSeq(FilterNames, Active)
      filterParams ==
        MergeAll([i \in 1..Len(activeFilters) |->
                    (OpKey[activeFilters[i]] :> Str(<<"~">>))
                    @@ (ValueKey[activeFilters[i]] :> textFilters[FilterArg[activeFilters[i]]])])
  IN  IF Len(activeFilters) > 0
      THEN ("f[]" :> Str(JoinTexts([i \in 1..Len(activeFilters) |-> FilterText[activeFilters[i]]],
                                   <<",">>)))
           @@ filterParams
      ELSE filterParams

\* typeof args === 'object' && args !== null
IsObject(a) == a.k = "object" \/ a.k = "array"

\* the properties of an argument object; the model's only array is empty
Props(a) == IF a.k = "object" THEN a.props ELSE EmptyObject

\* Mutant of ValidateArgs: create_issue checks subject before project_id
ValidateArgsSubjectFirst(h, a) ==
  IF ~IsObject(a) THEN "Arguments must be an object"
  ELSE IF h \in {"get_issue", "update_issue"} /\ "id" \notin DOMAIN Props(a)
  THEN "id is required"
  ELSE IF h = "create_issue" /\ "subject" \notin DOMAIN Props(a)
  THEN "subject is required"
  ELSE IF h = "create_issue" /\ "project_id" \notin DOMAIN Props(a)
  THEN "project_id is required"
  ELSE "ok"

\* the checks that throw a ValidationError at the start of each handler
ValidateArgs(h, a) ==
  IF ~IsObject(a) THEN "Arguments must be an object"
  ELSE IF h \in {"get_issue", "update_issue"} /\ "id" \notin DOMAIN Props(a)
  THEN "id is required"
  ELSE IF h = "create_issue" /\ "project_id" \notin DOMAIN Props(a)
  THEN "project_id is required"
  ELSE IF h = "create_issue" /\ "subject" \notin DOMAIN Props(a)
  THEN "subject is required"
  ELSE "ok"

SpecialStatus == {<<"o", "p", "e", "n">>, <<"c", "l", "o", "s", "e", "d">>, <<"*">>}

Me == Str(<<"m", "e">>)

\* the conversion a handler applies to one argument
Coerce(kind, v) ==
  CASE kind = "number" -> (LET n == asNumber(v) IN IF n.ok THEN Ok(Num(n.value)) ELSE n)
    [] kind = "string" -> Ok(Str(StringOf(v)))
    [] kind = "boolean" -> Ok(BooleanOf(v))
    [] kind = "status" ->
         (IF StringOf(v) \in SpecialStatus THEN Ok(Str(StringOf(v)))
          ELSE LET n == asNumber(v) IN IF n.ok THEN Ok(Num(n.value)) ELSE n)
    [] kind = "assignee" ->
         (IF v = Me THEN Ok(Me)
          ELSE LET n == asNumber(v) IN IF n.ok THEN Ok(Num(n.value)) ELSE n)
    [] OTHER -> Ok(v)

P(key, kind) == [key |-> key, kind |-> kind]

\* the `if ('key' in argsObj) params.key = ...` lines, in source order; the
\* first conversion that throws ends the handler's try block
RECURSIVE BuildParams(_, _, _)
BuildParams(a, lines, acc) ==
  IF lines = <<>> THEN Ok(acc)
  ELSE IF Head(lines).key \notin DOMAIN a THEN BuildParams(a, Tail(lines), acc)
  ELSE LET c == Coerce(Head(lines).kind, a[Head(lines).key])
       IN  IF ~c.ok THEN c
           ELSE BuildParams(a, Tail(lines), (Head(lines).key :> c.value) @@ acc)

ListLines ==
  <<P("sort", "string"), P("include", "string"), P("project_id", "number"),
    P("issue_id", "number"), P("subproject_id", "string"), P("tracker_id", "number"),
    P("parent_id", "number"), P("status_id", "status"), P("assigned_to_id", "assignee"),
    P("created_on", "string"), P("updated_on", "string"), P("cf_1", "string"),
    P("subject_filter", "string"), P("description_filter", "string"),
    P("notes_filter", "string")>>

CreateLines ==
  <<P("project_id", "number"), P("subject", "string"), P("tracker_id", "number"),
    P("status_id", "number"), P("priority_id", "number"), P("description", "string"),
    P("category_id", "number"), P("fixed_version_id", "number"),
    P("assigned_to_id", "number"), P("parent_issue_id", "number"),
    P("custom_fields", "raw"), P("watcher_user_ids", "raw"), P("is_private", "boolean"),
    P("estimated_hours", "number"), P("start_date", "string"), P("due_date", "string")>>

UpdateLines ==
  <<P("project_id", "number"), P("tracker_id", "number"), P("status_id", "number"),
    P("priority_id", "number"), P("subject", "string"), P("description", "string"),
    P("category_id", "number"), P("fixed_version_id", "number"),
    P("assigned_to_id", "number"), P("parent_issue_id", "number"),
    P("custom_fields", "raw"), P("notes", "string"), P("private_notes", "boolean"),
    P("is_private", "boolean"), P("estimated_hours", "number"),
    P("start_date", "string"), P("due_date", "string")>>

\* params.key, undefined when the property was not set
Get(obj, key) == IF key \in DOMAIN obj THEN obj[key] ELSE Undef

\* a call of the Redmine client
Call(method, id, params) == [method |-> method, id |-> id, params |-> params]

\* Mutant of listIssuesRequest: the text filter directives replace the query
listIssuesRequestReplacing(a) ==
  LET pagination == extractPaginationParams(a)
      params == BuildParams(a, ListLines,
                            [limit |-> Num(pagination.value.limit),
                             offset |-> Num(pagination.value.offset)])
      textFilters == [f \in {"subject_filter", "description_filter", "notes_filter"}
                        |-> Get(params.value, f)]
      textFilterParams == buildTextFilterParams(textFilters)
  IN  IF ~pagination.ok THEN pagination
      ELSE IF ~params.ok THEN params
      ELSE Ok(Call("getIssues", 0,
                   IF textFilterParams = EmptyObject THEN params.value ELSE textFilterParams))

\* the try block of list_issues up to the call of client.issues.getIssues
listIssuesRequest(a) ==
  LET pagination == extractPaginationParams(a)
      params == BuildParams(a, ListLines,
                            [limit |-> Num(pagination.value.limit),
                             offset |-> Num(pagination.value.offset)])
      textFilters == [f \in {"subject_filter", "description_filter", "notes_filter"}
                        |-> Get(params.value, f)]
  IN  IF ~pagination.ok THEN pagination
      ELSE IF ~params.ok THEN params
      ELSE Ok(Call("getIssues", 0, buildTextFilterParams(textFilters) @@ params.value))

getIssueRequest(a) ==
  LET id == asNumber(a["id"])
  IN  IF ~id.ok THEN id
      ELSE Ok(Call("getIssue", id.value,
                   IF "include" \in DOMAIN a
                   THEN [include |-> Str(StringOf(a["include"]))] ELSE Undef))

createIssueRequest(a) ==
  LET params == BuildParams(a, CreateLines, EmptyObject)
  IN  IF ~params.ok THEN params ELSE Ok(Call("createIssue", 0, params.value))

updateIssueRequest(a) ==
  LET id == asNumber(a["id"])
      updateParams == BuildParams(a, UpdateLines, EmptyObject)
  IN  IF ~id.ok THEN id
      ELSE IF ~updateParams.ok THEN updateParams
      ELSE Ok(Call("updateIssue", id.value, updateParams.value))

\* the handler's try block up to the await: the call it makes, or the error thrown
\* Mutant of TryStart: the client is called although validation failed
TryStartCallsAnyway(h, a) ==
  IF ValidateArgs(h, a) # "ok" THEN Ok(Call("getIssues", 0, EmptyObject))
  ELSE CASE h = "list_issues" -> listIssuesRequest(Props(a))
         [] h = "get_issue" -> getIssueRequest(Props(a))
         [] h = "create_issue" -> createIssueRequest(Props(a))
         [] h = "update_issue" -> updateIssueRequest(Props(a))

TryStart(h, a) ==
  IF ValidateArgs(h, a) # "ok" THEN Fail(Error(ValidateArgs(h, a), TRUE))
  ELSE CASE h = "list_issues" -> listIssuesRequest(Props(a))
         [] h = "get_issue" -> getIssueRequest(Props(a))
         [] h = "create_issue" -> createIssueRequest(Props(a))
         [] h = "update_issue" -> updateIssueRequest(Props(a))

\* the text of the success envelope, built after the await
SuccessText(h, a, req, response) ==
  CASE h = "list_issues" ->
         [kind |-> "xml", doc |-> formatIssues(response, parseFormatOptions(Props(a)))]
    [] h = "get_issue" ->
         [kind |-> "xml", doc |-> formatIssue(response.issue, parseFormatOptions(Props(a)))]
    [] h = "create_issue" -> [kind |-> "created", id |-> response.issue.id]
    [] h = "update_issue" -> [kind |-> "updated", id |-> req.id]

Message(s) == [kind |-> "message", s |-> s]

Envelope(text, isError) ==
  [content |-> <<[type |-> "text", text |-> text]>>, isError |-> isError]

NoEnvelope == [content |-> <<>>, isError |-> FALSE]

\* Mutant of ErrorText: collaborator errors are reported with a fixed text
ErrorTextGeneric(error) ==
  IF error.validation THEN Message(error.message) ELSE Message("Internal error")

\* error instanceof Error ? error.message : String(error)
ErrorText(error) == Message(error.message)

\* Mutant of HandlerCatch: only validation errors are caught
HandlerCatchValidationOnly(error) ==
  IF error.validation
  THEN [outcome |-> "returned", envelope |-> Envelope(ErrorText(error), TRUE)]
  ELSE [outcome |-> "threw", envelope |-> NoEnvelope]

\* the catch block of a handler
HandlerCatch(error) ==
  [outcome |-> "returned", envelope |-> Envelope(ErrorText(error), TRUE)]

----------------------------------------------------------------------------
(* Handler invocations *)

\* all objects that set some of the properties of D, each to one of its values
RECURSIVE Objects(_, _)
Objects(keys, D) ==
  IF keys = <<>> THEN {EmptyObject}
  ELSE LET rest == Objects(Tail(keys), D)
       IN  rest \cup {(Head(keys) :> v) @@ r : v \in D[Head(keys)], r \in rest}

ArgObject(props) == [k |-> "object", props |-> props]

NumberText == Str(<<"1", "2", "3">>)

NotANumber == Str(<<"a", "b", "c">>)

SomeText == Str(<<"t", "x">>)

FilterValues == {Str(<<" ">>), Str(<<"f", "o", "o">>)}

ListArgs ==
  Objects(<<"limit", "offset", "project_id", "tracker_id", "status_id", "subject_filter",
            "description_filter", "notes_filter", "cf_1", "detail_level", "brief_fields">>,
          [limit |-> {NumberText, NotANumber}, offset |-> {Num(5)}, project_id |-> {Num(1)},
           tracker_id |-> {Num(2)},
           status_id |-> {Str(<<"o", "p", "e", "n">>), Str(<<"5">>)},
           subject_filter |-> FilterValues,
           description_filter |-> {Str(<<"f", "o", "o">>)},
           notes_filter |-> {Str(<<" ">>)}, cf_1 |-> {SomeText},
           detail_level |-> {Str(Brief)}, brief_fields |-> {JsonText(Invalid)}])

GetArgs ==
  Objects(<<"id", "include", "detail_level", "brief_fields", "max_journal_entries">>,
          [id |-> {NumberText, NotANumber}, include |-> {SomeText},
           detail_level |-> {Str(Brief), Str(<<"F", "U", "L", "L">>)},
           brief_fields |-> {JsonText(AllOn), JsonText(Invalid), Num(5)},
           max_journal_entries |-> {Num(0), Num(15)}])

CreateArgs ==
  Objects(<<"project_id", "subject", "tracker_id", "description", "is_private">>,
          [project_id |-> {NumberText, NotANumber}, subject |-> {SomeText},
           tracker_id |-> {Num(1), NotANumber}, description |-> {SomeText},
           is_private |-> {Bool(TRUE)}])

UpdateArgs ==
  Objects(<<"id", "subject", "project_id", "notes", "private_notes">>,
          [id |-> {NumberText, NotANumber}, subject |-> {SomeText},
           project_id |-> {Num(1), NotANumber}, notes |-> {SomeText},
           private_notes |-> {Bool(FALSE)}])

\* null, undefined, a number, a string, and an empty array
NonRecordArgs == {Null, Undef, Num(5), SomeText, Arr(<<>>)}

ArgsOf(h) ==
  NonRecordArgs
  \cup {ArgObject(o) : o \in CASE h = "list_issues" -> ListArgs
                              [] h = "get_issue" -> GetArgs
                              [] h = "create_issue" -> CreateArgs
                              [] h = "update_issue" -> UpdateArgs}

IssuesResponse(issues, total) ==
  [k |-> "object", issues |-> issues, total_count |-> total, offset |-> Num(0),
   limit |-> Num(25)]

\* what the client returns for a call
ResponsesTo(method) ==
  CASE method = "getIssues" ->
         {IssuesResponse(Arr(<<MinimalIssue, CompleteIssue>>), Num(2)),
          IssuesResponse(Arr(<<>>), Num(0)),
          IssuesResponse(Arr(<<CompleteIssue>>), Undef)}
    [] method = "getIssue" -> {[issue |-> MinimalIssue], [issue |-> CompleteIssue]}
    [] method = "createIssue" -> {[issue |-> [id |-> 12345]]}
    [] method = "updateIssue" -> {Undef}
    [] OTHER -> {}

\* what the client throws: an Error, or a value that is not an Error
ClientErrors == {Error("API Error", FALSE), Thrown("timeout")}

NoCall == Call("none", 0, Undef)

NoOutcome == [k |-> "none"]

Init ==
  /\ pc = "idle"
  /\ handler = "none"
  /\ args = Undef
  /\ request = NoCall
  /\ calls = 0
  /\ collab = NoOutcome
  /\ outcome = "none"
  /\ envelope = NoEnvelope
  /\ op = "none"
  /\ inp = Undef
  /\ res = Undef

\* the handler runs up to its await, or to the end when its try block throws
Invoke(h, a) ==
  /\ pc = "idle"
  /\ handler' = h
  /\ args' = a
  /\ LET t == TryStart(h, a)
     IN  IF t.ok
         THEN /\ pc' = "awaiting"
              /\ request' = t.value
              /\ calls' = calls + 1
              /\ UNCHANGED <<outcome, envelope>>
         ELSE /\ pc' = "done"
              /\ outcome' = HandlerCatch(t.error).outcome
              /\ envelope' = HandlerCatch(t.error).envelope
              /\ UNCHANGED <<request, calls>>
  /\ UNCHANGED <<collab, fvars>>

\* the awaited call resolves: the handler formats and returns
ClientReturns(response) ==
  /\ pc = "awaiting"
  /\ pc' = "done"
  /\ collab' = [k |-> "returned", response |-> response]
  /\ outcome' = "returned"
  /\ envelope' = Envelope(SuccessText(handler, args, request, response), FALSE)
  /\ UNCHANGED <<handler, args, request, calls, fvars>>

\* the awaited call rejects: the handler's catch block runs
ClientThrows(error) ==
  /\ pc = "awaiting"
  /\ pc' = "done"
  /\ collab' = [k |-> "threw", error |-> error]
  /\ outcome' = HandlerCatch(error).outcome
  /\ envelope' = HandlerCatch(error).envelope
  /\ UNCHANGED <<handler, args, request, calls, fvars>>

\* the next invocation starts from nothing: no state outlives a call
Return ==
  /\ pc = "done"
  /\ pc' = "idle"
  /\ handler' = "none"
  /\ args' = Undef
  /\ request' = NoCall
  /\ calls' = 0
  /\ collab' = NoOutcome
  /\ outcome' = "none"
  /\ envelope' = NoEnvelope
  /\ UNCHANGED fvars

Next ==
  \/ \E h \in Handlers : \E a \in ArgsOf(h) : Invoke(h, a)
  \/ \E r \in ResponsesTo(request.method) : ClientReturns(r)
  \/ \E e \in ClientErrors : ClientThrows(e)
  \/ Return

Spec == Init /\ [][Next]_vars

----------------------------------------------------------------------------
(* Claims about the handlers *)

\* a response envelope: one text item and the error flag
IsEnvelope(e) ==
  /\ Len(e.content) = 1
  /\ e.content[1].type = "text"
  /\ e.isError \in BOOLEAN

\* the payload was null or not an object
NotAnObject(a) == a.k \in {"null", "undefined", "number", "string", "boolean"}

ResultText == envelope.content[1].text

\* C1: whatever the arguments (null and non-objects included) and whether the
\* client returns or throws, an invocation of list_issues, get_issue,
\* create_issue or update_issue ends by returning a response envelope; no
\* exception escapes the handler.
C1_NoExceptionEscapes ==
  /\ outcome # "threw"
  /\ pc = "done" => outcome = "returned" /\ IsEnvelope(envelope)
  /\ pc # "done" => outcome = "none"

\* C1 witness: the client threw and the handler still returned an envelope
C1_Witness ==
  pc = "done" /\ collab.k = "threw" /\ outcome = "returned" /\ envelope.isError

\* C2: every invocation yields one envelope with one text item: a success
\* envelope with the rendered payload, only if validation passed and the client
\* call completed without error, or a failure envelope whose text is the message
\* of the validation or client error that was thrown.
C2_OneOutcome ==
  pc = "done" =>
    /\ IsEnvelope(envelope)
    /\ IF ~envelope.isError
       THEN /\ ~NotAnObject(args)
            /\ TryStart(handler, args).ok
            /\ calls = 1
            /\ collab.k = "returned"
            /\ ResultText.kind \in {"xml", "created", "updated"}
            /\ ResultText = SuccessText(handler, args, request, collab.response)
       ELSE /\ ResultText.kind = "message"
            /\ \/ /\ collab.k = "threw"
                  /\ calls = 1
                  /\ ResultText.s = collab.error.message
               \/ /\ collab.k = "none"
                  /\ calls = 0
                  /\ ~TryStart(handler, args).ok
                  /\ TryStart(handler, args).error.validation
                  /\ ResultText.s = TryStart(handler, args).error.message

\* C2 witness: a failure envelope carrying the message of the client's error
C2_Witness ==
  /\ pc = "done"
  /\ envelope.isError
  /\ collab = [k |-> "threw", error |-> Error("API Error", FALSE)]
  /\ ResultText = Message("API Error")

\* C3: validation reports the first failing check: a null or non-object payload
\* gives 'Arguments must be an object' in all four handlers; otherwise get_issue
\* and update_issue without id give 'id is required'; create_issue without
\* project_id gives 'project_id is required' even when subject is missing too,
\* and with project_id but without subject 'subject is required'.
C3_ValidationOrder ==
  pc = "done" =>
    LET Failure(m) == envelope = Envelope(Message(m), TRUE)
        Has(key) == key \in DOMAIN Props(args)
    IN  /\ NotAnObject(args) => Failure("Arguments must be an object")
        /\ (~NotAnObject(args) /\ handler \in {"get_issue", "update_issue"} /\ ~Has("id"))
             => Failure("id is required")
        /\ (~NotAnObject(args) /\ handler = "create_issue" /\ ~Has("project_id"))
             => Failure("project_id is required")
        /\ (~NotAnObject(args) /\ handler = "create_issue" /\ Has("project_id")
            /\ ~Has("subject"))
             => Failure("subject is required")

\* C3 witness: create_issue without project_id and without subject
C3_Witness ==
  /\ pc = "done"
  /\ handler = "create_issue"
  /\ args.k = "object"
  /\ "project_id" \notin DOMAIN args.props
  /\ "subject" \notin DOMAIN args.props
  /\ envelope = Envelope(Message("project_id is required"), TRUE)

\* the default policy as documented: assignee and dates on, description
\* truncated, an empty custom field selection, everything else off
DocumentedDefaultBriefFields ==
  Policy(Bool(TRUE), Truncated, Arr(<<>>), Bool(TRUE), Bool(FALSE),
         Bool(FALSE), Bool(FALSE), Bool(FALSE), Bool(FALSE), Bool(FALSE))

\* a get_issue or list_issues request whose brief_fields argument is not a
\* string or not JSON, which passed validation and whose client call returned
MalformedBriefFieldsServed ==
  /\ pc = "done"
  /\ handler \in {"get_issue", "list_issues"}
  /\ ~NotAnObject(args)
  /\ "brief_fields" \in DOMAIN Props(args)
  /\ \/ Props(args)["brief_fields"].k # "string"
     \/ Props(args)["brief_fields"].json.k = "invalid"
  /\ TryStart(handler, args).ok
  /\ collab.k = "returned"

\* the configuration of the request with the policy replaced
OptionsUnder(policy) == [parseFormatOptions(Props(args)) EXCEPT !.brief_fields = policy]

\* the payload of the request rendered under the policy
RenderedUnder(policy) ==
  IF handler = "get_issue"
  THEN formatIssue(collab.response.issue, OptionsUnder(policy))
  ELSE formatIssues(collab.response, OptionsUnder(policy))

\* C16: a brief_fields argument that is not valid JSON or not a string never
\* fails a get_issue or list_issues request: the handler returns a success
\* envelope, and the output is the one rendered with the default policy
\* (assignee on, dates on, description truncated, everything else off).
C16_MalformedPolicyServedWithDefault ==
  MalformedBriefFieldsServed =>
    /\ ~envelope.isError
    /\ ResultText.kind = "xml"
    /\ ResultText.doc = RenderedUnder(DocumentedDefaultBriefFields)

FilterArgNames == {"subject_filter", "description_filter", "notes_filter"}

DirectiveKeys ==
  {"f[]"} \cup {OpKey[f] : f \in DOMAIN OpKey} \cup {ValueKey[f] : f \in DOMAIN ValueKey}

\* the query list_issues built before text filters existed: pagination and the
\* parameter lines up to the custom field filters
QueryBefore(a) ==
  LET pagination == extractPaginationParams(a).value
  IN  BuildParams(a, SubSeq(ListLines, 1, Len(ListLines) - 3),
                  [limit |-> Num(pagination.limit), offset |-> Num(pagination.offset)]).value

\* the arguments of the request without its text filters
WithoutTextFilters == [k \in DOMAIN Props(args) \ FilterArgNames |-> Props(args)[k]]

ListQuerySent == handler = "list_issues" /\ request # NoCall

\* C18: in list_issues the text filter directives are merged into the query
\* without replacing or dropping anything: every other parameter derived from
\* the arguments reaches the client with the value it has without text
\* filters, the raw *_filter values are sent as given, only directives are
\* added, and with no text filter the query is the one built before the
\* feature existed.
C18_TextFiltersMerged ==
  ListQuerySent =>
    /\ \A k \in DOMAIN QueryBefore(WithoutTextFilters) :
         /\ k \in DOMAIN request.params
         /\ request.params[k] = QueryBefore(WithoutTextFilters)[k]
    /\ \A k \in FilterArgNames \cap DOMAIN Props(args) :
         /\ k \in DOMAIN request.params
         /\ request.params[k] = Str(StringOf(Props(args)[k]))
    /\ DOMAIN request.params \subseteq
         DOMAIN QueryBefore(WithoutTextFilters)
           \cup (FilterArgNames \cap DOMAIN Props(args)) \cup DirectiveKeys
    /\ FilterArgNames \cap DOMAIN Props(args) = {}
         => request.params = QueryBefore(Props(args))

C18_Witness ==
  /\ ListQuerySent
  /\ {"limit", "offset", "project_id", "tracker_id", "status_id", "cf_1", "subject_filter"}
       \subseteq DOMAIN Props(args)
  /\ {"f[]", "op[subject]", "v[subject][]", "limit", "offset", "project_id", "tracker_id",
      "status_id", "cf_1", "subject_filter"} \subseteq DOMAIN request.params
  /\ request.params["offset"] = Num(5)
  /\ request.params["tracker_id"] = Num(2)

\* a list_issues request without text filters reached the client
C18_WitnessNoFilters ==
  /\ ListQuerySent
  /\ FilterArgNames \cap DOMAIN Props(args) = {}
  /\ "cf_1" \in DOMAIN request.params

\* C24: in each handler invocation the client is called at most once, it is
\* never called when argument validation fails, and the result is formatted
\* only after the client call has completed.
C24_OneCallBeforeFormatting ==
  /\ calls <= 1
  /\ calls = 1 <=> request # NoCall
  /\ calls = 1 => ValidateArgs(handler, args) = "ok" /\ TryStart(handler, args).ok
  /\ (pc = "done" /\ ~TryStart(handler, args).ok) => calls = 0 /\ collab = NoOutcome
  /\ pc = "awaiting" => calls = 1 /\ collab = NoOutcome /\ envelope = NoEnvelope
  /\ (envelope # NoEnvelope /\ ~envelope.isError) =>
       pc = "done" /\ calls = 1 /\ collab.k = "returned"

\* a list_issues request whose limit is not a number ends without a call
C24_Witness ==
  /\ pc = "done"
  /\ handler = "list_issues"
  /\ ValidateArgs(handler, args) = "ok"
  /\ ~TryStart(handler, args).ok
  /\ calls = 0
  /\ envelope.isError

\* an update_issue request is answered after its one call has returned
C24_WitnessUpdate ==
  /\ pc = "done"
  /\ handler = "update_issue"
  /\ calls = 1
  /\ collab.k = "returned"
  /\ ~envelope.isError

----------------------------------------------------------------------------
(* Formatter calls *)

JournalsOnly == [AllOff EXCEPT !.journals = Bool(TRUE)]

\* the policy that selects the custom fields of the given names and nothing else
NamedSubset(names) == [AllOff EXCEPT !.custom_fields = Arr(names)]

\* the max_journal_entries values the options parser can produce
ParsedJournalLimits == {Num(n) : n \in 0..10}

\* the longest text the functions are applied to
MaxText == 8

\* the characters that matter to truncation, cleaning and escaping
SpecialChars == {" ", "\t", "\n", "&"}

\* a word of the given length with the characters c1 and c2 at positions i and j
\* (position 0: nowhere)
TextWith(len, i, c1, j, c2) ==
  [k \in 1..len |-> IF k = i THEN c1 ELSE IF k = j THEN c2 ELSE "a"]

\* the policy that renders the description truncated and nothing else optional
DescriptionTruncated == [AllOff EXCEPT !.description = Truncated]

\* the options a caller passes along with an issue
\* the five characters escapeXml replaces
Reserved == {"&", "<", ">", "\"", "'"}

\* the places of an issue that hold text
TextPlaces ==
  {"subject", "description", "start_date", "due_date", "created_on", "updated_on",
   "closed_on", "project", "assigned_to", "custom_field", "notes", "journal.created_on"}

\* a complete issue with the character in the text of one place
IssueWith(place, c) ==
  LET text == <<"2", c, "4">>
  IN  CASE place = "project" -> [CompleteIssue EXCEPT !.project = Obj(1, text)]
        [] place = "assigned_to" -> [CompleteIssue EXCEPT !.assigned_to = Obj(2, text)]
        [] place = "custom_field" ->
             [CompleteIssue EXCEPT !.custom_fields = Arr(<<CustomField(1, <<"A">>, Str(text))>>)]
        [] place = "notes" ->
             [CompleteIssue EXCEPT
                !.journals = Arr(<<[JournalEntry(1, 0) EXCEPT !.notes = Str(text)]>>)]
        [] place = "journal.created_on" ->
             [CompleteIssue EXCEPT
                !.journals = Arr(<<[JournalEntry(1, 0) EXCEPT !.created_on = text]>>)]
        [] OTHER -> [CompleteIssue EXCEPT ![place] = Str(text)]

\* full detail with limits that would cut the description and the journals
FullWithLimits == FormatOptions("full", AllOn, Num(3), Num(1))

IssueOptions ==
  {Undef, DEFAULT_FORMAT_OPTIONS, FullWithLimits}
  \cup {FormatOptions("brief", p, Num(DefaultMaxDescriptionLength),
                      Num(DefaultMaxJournalEntries)) : p \in Policies \cup {Undef}}

\* the issue and the options of the call: every issue under every policy, the
\* journal lists under every journal limit, the custom field lists under every
\* named subset, the descriptions under every description limit, a reserved
\* character in every place that holds text
InitFormat ==
  /\ pc = "idle"
  /\ handler = "none"
  /\ args = Undef
  /\ request = NoCall
  /\ calls = 0
  /\ collab = NoOutcome
  /\ outcome = "none"
  /\ envelope = NoEnvelope
  /\ op = "none"
  /\ \/ \E i \in Issues, o \in IssueOptions : inp = [issue |-> i, options |-> o]
     \/ \E j \in JournalLists, p \in {AllOn, JournalsOnly}, n \in ParsedJournalLimits \cup {Undef} :
          inp = [issue |-> [CompleteIssue EXCEPT !.journals = j],
                 options |-> FormatOptions("brief", p, Num(DefaultMaxDescriptionLength), n)]
     \/ \E c \in {Undef} \cup {Arr(l) : l \in CustomFieldLists}, n \in NameLists :
          inp = [issue |-> [MinimalIssue EXCEPT !.custom_fields = c],
                 options |-> FormatOptions("brief", NamedSubset(n),
                                           Num(DefaultMaxDescriptionLength),
                                           Num(DefaultMaxJournalEntries))]
     \/ \E len \in 0..MaxText, c \in SpecialChars, m \in 0..(MaxText + 1),
           p \in {DescriptionTruncated, AllOn} : \E i \in 0..len :
          inp = [issue |-> [MinimalIssue EXCEPT !.description = Str(TextWith(len, i, c, 0, c))],
                 options |-> FormatOptions("brief", p, Num(m), Num(DefaultMaxJournalEntries))]
     \/ \E place \in TextPlaces, c \in Reserved,
           o \in {Undef, FormatOptions("brief", AllOn, Num(DefaultMaxDescriptionLength),
                                       Num(DefaultMaxJournalEntries))} :
          inp = [issue |-> IssueWith(place, c), options |-> o]
  /\ res = Undef

\* a parameter with a default value: the default replaces undefined only
Param(v, default) == IF Defined(v) THEN v.n ELSE default

\* formatIssue(issue, options)
FormatIssue ==
  /\ op = "none"
  /\ op' = "formatIssue"
  /\ res' = formatIssue(inp.issue, inp.options)
  /\ UNCHANGED <<hvars, inp>>

\* formatIssueBrief(issue, briefFields, maxDescLength, maxJournalEntries)
FormatIssueBrief ==
  /\ op = "none"
  /\ Truthy(inp.options)
  /\ Truthy(inp.options.brief_fields)
  /\ op' = "formatIssueBrief"
  /\ res' = formatIssueBrief(inp.issue, inp.options.brief_fields,
                             Param(inp.options.max_description_length, 200),
                             Param(inp.options.max_journal_entries, 3))
  /\ UNCHANGED <<hvars, inp>>

\* selectFields(issue, briefFields)
SelectFields ==
  /\ op = "none"
  /\ Truthy(inp.options)
  /\ Truthy(inp.options.brief_fields)
  /\ op' = "selectFields"
  /\ res' = selectFields(inp.issue, inp.options.brief_fields)
  /\ UNCHANGED <<hvars, inp>>

NextFormat == FormatIssue \/ FormatIssueBrief \/ SelectFields

SpecFormat == InitFormat /\ [][NextFormat]_vars

----------------------------------------------------------------------------
(* Claims about the formatters *)

Tags(doc) == {doc[i].tag : i \in 1..Len(doc)}

\* the call rendered the issue in full mode
FullMode ==
  op = "formatIssue" /\ (~Truthy(inp.options) \/ inp.options.detail_level = "full")

\* the call rendered the issue in brief mode
BriefMode ==
  \/ op = "formatIssueBrief"
  \/ op = "formatIssue" /\ Truthy(inp.options) /\ inp.options.detail_level = "brief"

\* the caller supplied a selection policy
PolicyGiven == Truthy(inp.options) /\ Truthy(inp.options.brief_fields)

\* the policy in force enables the group; without a policy the default one
\* (assignee and dates on) is in force
GroupOn(g) ==
  IF PolicyGiven THEN Truthy(inp.options.brief_fields[g]) ELSE g \in {"assignee", "dates"}

EssentialTags == {"id", "subject", "project", "tracker", "status", "priority"}

CoreTags == EssentialTags \cup {"author", "progress", "created_on", "updated_on"}

\* the issue has all its core fields
CorePresent ==
  /\ Truthy(inp.issue.author)
  /\ Defined(inp.issue.done_ratio)
  /\ Truthy(inp.issue.created_on)
  /\ Truthy(inp.issue.updated_on)

OptionalTags ==
  [assigned_to |-> [group |-> "assignee", field |-> "assigned_to"],
   category |-> [group |-> "category", field |-> "category"],
   version |-> [group |-> "version", field |-> "fixed_version"],
   start_date |-> [group |-> "dates", field |-> "start_date"],
   due_date |-> [group |-> "dates", field |-> "due_date"],
   estimated_hours |-> [group |-> "time_tracking", field |-> "estimated_hours"],
   spent_hours |-> [group |-> "time_tracking", field |-> "spent_hours"],
   description |-> [group |-> "description", field |-> "description"],
   custom_fields |-> [group |-> "custom_fields", field |-> "custom_fields"],
   journals |-> [group |-> "journals", field |-> "journals"]]

\* not absent, not null, not an empty string or collection; zero is present
PresentNonEmpty(v) ==
  /\ v.k \notin {"undefined", "null"}
  /\ v.k = "string" => Len(v.s) > 0
  /\ v.k = "array" => Len(v.a) > 0

\* C5: in brief mode the element of an optional field (assigned_to, category,
\* version, start_date, due_date, estimated_hours, spent_hours, description,
\* custom_fields, journals) is in the output only if the policy enables its
\* group and the issue's value for it is present and non-empty; zero hours
\* count as present.
C5_OptionalOnlyIfEnabledAndPresent ==
  BriefMode =>
    \A t \in DOMAIN OptionalTags :
      t \in Tags(res) =>
        /\ GroupOn(OptionalTags[t].group)
        /\ PresentNonEmpty(inp.issue[OptionalTags[t].field])

\* C6: in brief mode without a supplied policy formatIssue uses the default
\* policy assignee on, dates on, description truncated, every other group off,
\* so a present description is rendered, truncated.
C6_DefaultPolicy ==
  (op = "formatIssue" /\ BriefMode /\ ~PolicyGiven) =>
    res = formatIssueBrief(inp.issue, DocumentedDefaultBriefFields,
                           BriefArguments(inp.options).maxDescLength,
                           BriefArguments(inp.options).maxJournalEntries)

JournalTags ==
  {"journals", "journal", "journal.id", "journal.user", "journal.created_on",
   "journal.private_notes", "journal.notes", "details", "detail", "detail.property",
   "detail.name", "detail.old_value", "detail.new_value"}

\* the journals element of a document, empty when it has none
JournalPart(doc) == LET IsJournal(e) == e.tag \in JournalTags IN SelectSeq(doc, IsJournal)

\* C9: in brief mode with journals enabled formatIssue renders the journals
\* that limitJournalEntries yields for exactly the configured
\* max_journal_entries, for every value 0..10 the options parser can produce.
C9_ConfiguredJournalLimit ==
  (op = "formatIssue" /\ BriefMode /\ PolicyGiven /\ GroupOn("journals")
   /\ inp.options.max_journal_entries \in ParsedJournalLimits) =>
    LET limited == limitJournalEntries(inp.issue.journals,
                                       inp.options.max_journal_entries.n,
                                       DefaultMaxNoteLength)
    IN  JournalPart(res) = IF Len(limited) > 0 THEN formatJournals(limited) ELSE <<>>

\* selectFields was called with a named-subset custom_fields policy
NamedSelection ==
  /\ op = "selectFields"
  /\ inp.options.brief_fields.custom_fields.k = "array"

\* the names requested by the policy
Requested == inp.options.brief_fields.custom_fields.a

\* the custom fields of the issue, none when the collection is absent
IssueCustomFields ==
  IF inp.issue.custom_fields.k = "array" THEN inp.issue.custom_fields.a ELSE <<>>

\* the custom fields of the reduced record, none when it has no collection
SelectedCustomFields ==
  IF res.issue.custom_fields.k = "array" THEN res.issue.custom_fields.a ELSE <<>>

\* the warnings of the selection result, none when it has no warnings
Warnings == IF res.warnings.k = "array" THEN res.warnings.a ELSE <<>>

Range(f) == {f[i] : i \in DOMAIN f}

\* the emptiness rule: a value is non-empty iff it is not null or absent, a
\* string has a non-blank character, a sequence has a non-blank element
NonEmptyValue(v) ==
  /\ v.k \notin {"undefined", "null"}
  /\ v.k = "string" => \E i \in 1..Len(v.s) : v.s[i] \notin Whitespace
  /\ v.k = "array" => \E i \in 1..Len(v.a) : \E j \in 1..Len(v.a[i]) : v.a[i][j] \notin Whitespace

\* the first field of the issue with that name is missing or empty
NotFoundOrEmpty(name) ==
  LET at == {i \in 1..Len(IssueCustomFields) : IssueCustomFields[i].name = name}
  IN  \/ at = {}
      \/ ~NonEmptyValue(IssueCustomFields[CHOOSE i \in at : \A j \in at : i <= j].value)

\* C7: with a named-subset policy selectFields includes, for every issue whose
\* custom_fields are populated, empty or absent, each non-empty field with a
\* requested name, and emits the warning 'Custom field "<name>" not found or
\* empty' for each requested name that is not found or found empty, and no
\* other warning.
C7_NamedSubsetFieldsAndWarnings ==
  NamedSelection =>
    /\ Range(SelectedCustomFields) =
         {f \in Range(IssueCustomFields) : Includes(Requested, f.name) /\ NonEmptyValue(f.value)}
    /\ Range(Warnings) =
         {WarningText(Requested[i]) : i \in {j \in 1..Len(Requested) : NotFoundOrEmpty(Requested[j])}}
    /\ Len(Warnings) = Cardinality({j \in 1..Len(Requested) : NotFoundOrEmpty(Requested[j])})

\* the position of the first element of seq that satisfies Is
FirstIndex(seq, Is(_)) == CHOOSE i \in 1..Len(seq) : Is(seq[i]) /\ \A j \in 1..(i - 1) : ~Is(seq[j])

\* the warnings follow the order of the requested names: they are the
\* warnings of all requested names, in that order, with some left out
WarningsInRequestedOrder ==
  LET all == [i \in 1..Len(Requested) |-> WarningText(Requested[i])]
      Emitted(w) == w \in Range(Warnings)
  IN  Warnings = SelectSeq(all, Emitted)

\* the selected fields follow the order of the requested names
FieldsInRequestedOrder ==
  \A i, j \in 1..Len(SelectedCustomFields) :
    i < j =>
      LET Ni(n) == n = SelectedCustomFields[i].name
          Nj(n) == n = SelectedCustomFields[j].name
      IN  FirstIndex(Requested, Ni) <= FirstIndex(Requested, Nj)

\* the selected fields follow the order they have in the issue
FieldsInIssueOrder ==
  LET Kept(f) == f \in Range(SelectedCustomFields)
  IN  SelectedCustomFields = SelectSeq(IssueCustomFields, Kept)

\* C8 as claimed: with a named-subset policy the selected fields and the
\* warnings of selectFields are both ordered by the requested names, not by
\* the order of the fields in the issue.
C8_BothInRequestedOrder ==
  NamedSelection => (FieldsInRequestedOrder /\ WarningsInRequestedOrder)

\* C8 amended: with a named-subset policy the warnings of selectFields are
\* ordered by the requested names, and the selected fields keep the order they
\* have in the issue.
C8_WarningsRequestedFieldsIssueOrder ==
  NamedSelection => (FieldsInIssueOrder /\ WarningsInRequestedOrder)

\* C8 witness: B then A requested of an issue that holds A then B, both
\* non-empty: A then B selected
C8_Witness ==
  /\ NamedSelection
  /\ Requested = <<<<"B">>, <<"A">>>>
  /\ Len(SelectedCustomFields) = 2
  /\ SelectedCustomFields[1].name = <<"A">>
  /\ SelectedCustomFields[2].name = <<"B">>
  /\ SelectedCustomFields = IssueCustomFields

\* the character an entity name stands for
EntityChar(name) ==
  CASE name = <<"a", "m", "p">> -> "&"
    [] name = <<"l", "t">> -> "<"
    [] name = <<"g", "t">> -> ">"
    [] name = <<"q", "u", "o", "t">> -> "\""
    [] name = <<"a", "p", "o", "s">> -> "'"
    [] OTHER -> "?"

\* the text an escaped text stands for: every entity replaced by its character
RECURSIVE unescapeXml(_)
unescapeXml(s) ==
  IF s = <<>> THEN <<>>
  ELSE LET ends == {i \in 2..Len(s) : s[i] = ";"}
       IN  IF Head(s) = "&" /\ ends # {}
           THEN LET close == CHOOSE i \in ends : \A j \in ends : i <= j
                IN  <<EntityChar(SubSeq(s, 2, close - 1))>>
                      \o unescapeXml(SubSeq(s, close + 1, Len(s)))
           ELSE <<Head(s)>> \o unescapeXml(Tail(s))

\* the names of the five entities
EntityNames ==
  {<<"a", "m", "p">>, <<"l", "t">>, <<"g", "t">>, <<"q", "u", "o", "t">>,
   <<"a", "p", "o", "s">>}

\* the text has no raw reserved character: the only reserved character in it
\* is the & that starts one of the five entities
WellEscaped(text) ==
  \A i \in 1..Len(text) :
    /\ text[i] \notin Reserved \ {"&"}
    /\ text[i] = "&" =>
         \E name \in EntityNames :
           /\ i + Len(name) + 1 <= Len(text)
           /\ SubSeq(text, i + 1, i + Len(name) + 1) = name \o <<";">>

\* the elements of the output whose text is not escaped
RawElements == {res[i].tag : i \in {j \in 1..Len(res) : ~WellEscaped(res[j].text)}}

\* C20: every text value taken from the issue and embedded in the output of
\* formatIssue or formatIssueBrief (names, subject, description, notes, custom
\* field values, dates and timestamps, warnings) has the five reserved
\* characters escaped: no raw reserved character appears in the output.
C20_AllTextEscaped ==
  op \in {"formatIssue", "formatIssueBrief"} => RawElements = {}

\* the texts between <description> and </description> in the output
DescriptionTexts == {res[i].text : i \in {j \in 1..Len(res) : res[j].tag = "description"}}

\* the maxDescLength in force: the parameter of formatIssueBrief, which
\* formatIssue sets to the configured value or, for none or 0, to 200
MaxDescLength ==
  LET n == inp.options.max_description_length
  IN  IF n.k = "number" /\ (n.n # 0 \/ op = "formatIssueBrief") THEN n.n ELSE 200

\* brief mode under a policy whose description is 'truncated'
TruncatedDescriptionMode ==
  /\ BriefMode
  /\ PolicyGiven
  /\ inp.options.brief_fields.description = Truncated

\* C13 as claimed: in brief mode with description policy 'truncated' the text
\* between <description> and </description> has at most maxDescLength + 3
\* characters.
C13_RenderedDescriptionBounded ==
  TruncatedDescriptionMode =>
    \A t \in DescriptionTexts : Len(t) <= MaxDescLength + 3

\* C13 amended: in brief mode with description policy 'truncated', for every
\* maxDescLength >= 0, the text between <description> and </description> is
\* the escaped form of a text of at most maxDescLength + 3 characters (a
\* reserved character counts once, not as the entity that replaces it).
C13_UnescapedDescriptionBounded ==
  TruncatedDescriptionMode =>
    \A t \in DescriptionTexts : Len(unescapeXml(t)) <= MaxDescLength + 3

\* C13 witness: a description longer than maxDescLength rendered cut, with
\* maxDescLength + 3 characters before escaping and more after
C13_Witness ==
  /\ TruncatedDescriptionMode
  /\ inp.issue.description.k = "string"
  /\ Len(inp.issue.description.s) > MaxDescLength
  /\ \E t \in DescriptionTexts :
       /\ Len(unescapeXml(t)) = MaxDescLength + 3
       /\ Len(t) > MaxDescLength + 3

----------------------------------------------------------------------------
(* Calls of limitJournalEntries *)

\* a note limit short enough to cut the notes of NotePool
ShortNoteLength == 5

\* the maxEntries values of the calls
EntryLimits == (-2)..(MaxJournals + 1)

InitJournals ==
  /\ pc = "idle"
  /\ handler = "none"
  /\ args = Undef
  /\ request = NoCall
  /\ calls = 0
  /\ collab = NoOutcome
  /\ outcome = "none"
  /\ envelope = NoEnvelope
  /\ op = "none"
  /\ \E j \in JournalLists, n \in EntryLimits,
        l \in {Undef, Num(ShortNoteLength), Num(DefaultMaxNoteLength)} :
       inp = [journals |-> j, maxEntries |-> Num(n), maxNoteLength |-> l]
  /\ res = Undef

\* limitJournalEntries(journals, maxEntries, maxNoteLength = 100)
LimitJournalEntries ==
  /\ op = "none"
  /\ op' = "limitJournalEntries"
  /\ res' = limitJournalEntries(inp.journals, inp.maxEntries.n,
                                Param(inp.maxNoteLength, 100))
  /\ UNCHANGED <<hvars, inp>>

NextJournals == LimitJournalEntries

SpecJournals == InitJournals /\ [][NextJournals]_vars

\* the entries of the input list, none when the list is absent
InputJournals == IF inp.journals.k = "array" THEN inp.journals.a ELSE <<>>

\* the maxEntries of the call
MaxEntries == inp.maxEntries.n

\* C10: for every journal list and every maxEntries N > 0 limitJournalEntries
\* returns the last min(N, length) entries of the input in their original
\* order (their notes possibly shortened); an absent or empty list yields an
\* empty list.
C10_LastEntriesInOrder ==
  (op = "limitJournalEntries" /\ MaxEntries > 0) =>
    LET len == Len(InputJournals)
        kept == IF MaxEntries < len THEN MaxEntries ELSE len
    IN  /\ Len(res) = kept
        /\ \A i \in 1..kept :
             [res[i] EXCEPT !.notes = InputJournals[len - kept + i].notes]
               = InputJournals[len - kept + i]

\* C10 witness: 5 entries limited to 2 yield entries 4 and 5 in that order
C10_Witness ==
  /\ op = "limitJournalEntries"
  /\ Len(InputJournals) = 5
  /\ MaxEntries = 2
  /\ Len(res) = 2
  /\ res[1].id = 4
  /\ res[2].id = 5

----------------------------------------------------------------------------
(* Calls of truncateText and truncateDescription *)

InitText ==
  /\ pc = "idle"
  /\ handler = "none"
  /\ args = Undef
  /\ request = NoCall
  /\ calls = 0
  /\ collab = NoOutcome
  /\ outcome = "none"
  /\ envelope = NoEnvelope
  /\ op = "none"
  /\ \E m \in 0..(MaxText + 1) :
       \/ \E t \in {Undef, Null, LongDescription} : inp = [text |-> t, maxLength |-> m]
       \/ \E len \in 0..MaxText :
            \E i, j \in 0..len, c1, c2 \in SpecialChars :
              inp = [text |-> Str(TextWith(len, i, c1, j, c2)), maxLength |-> m]
  /\ res = Undef

\* truncateText(text, maxLength)
TruncateText ==
  /\ op = "none"
  /\ op' = "truncateText"
  /\ res' = IF Truthy(inp.text) THEN Str(truncateText(inp.text.s, inp.maxLength)) ELSE inp.text
  /\ UNCHANGED <<hvars, inp>>

\* truncateDescription(description, maxLength)
TruncateDescription ==
  /\ op = "none"
  /\ op' = "truncateDescription"
  /\ res' = Str(truncateDescription(inp.text, inp.maxLength))
  /\ UNCHANGED <<hvars, inp>>

\* truncateDescription(r, maxLength) for the result r of the call before
TruncateDescriptionAgain ==
  /\ op = "truncateDescription"
  /\ op' = "truncateDescriptionAgain"
  /\ res' = [once |-> res, again |-> Str(truncateDescription(res, inp.maxLength))]
  /\ UNCHANGED <<hvars, inp>>

NextText == TruncateText \/ TruncateDescription \/ TruncateDescriptionAgain

SpecText == InitText /\ [][NextText]_vars

\* the characters of the input text, none when it is absent
InputText == IF inp.text.k = "string" THEN inp.text.s ELSE <<>>

\* the first maxLength characters of the input text
Prefix == SubSeq(InputText, 1, inp.maxLength)

\* the zero-based positions in the prefix of the characters of the set
PositionsOf(chars) == {i \in 0..(Len(Prefix) - 1) : Prefix[i + 1] \in chars}

Last(positions) == CHOOSE i \in positions : \A j \in positions : j <= i

\* the call left the text as it was
Unchanged == res = inp.text

\* C11 as claimed: truncate returns the text unchanged when its length is at
\* most maxLength or it is empty or absent; otherwise it takes the prefix of
\* length maxLength, cuts it at the last whitespace character of the prefix
\* when that character's position is at least 80% of maxLength, and appends
\* '...'.
C11_CutAtWhitespaceFrom80Percent ==
  op = "truncateText" =>
    IF Len(InputText) <= inp.maxLength THEN Unchanged
    ELSE LET at == PositionsOf(Whitespace)
         IN  IF at # {} /\ 10 * Last(at) >= 8 * inp.maxLength
             THEN res = Str(SubSeq(Prefix, 1, Last(at)) \o <<".", ".", ".">>)
             ELSE res = Str(Prefix \o <<".", ".", ".">>)

\* C11 amended: truncate returns the text unchanged when its length is at most
\* maxLength or it is empty or absent; otherwise it takes the prefix of length
\* maxLength, cuts it at the last space character of the prefix when that
\* character's zero-based index is strictly greater than 80% of maxLength, and
\* appends '...'.
C11_CutAtSpaceAbove80Percent ==
  op = "truncateText" =>
    IF Len(InputText) <= inp.maxLength THEN Unchanged
    ELSE LET at == PositionsOf({" "})
         IN  IF at # {} /\ 10 * Last(at) > 8 * inp.maxLength
             THEN res = Str(SubSeq(Prefix, 1, Last(at)) \o <<".", ".", ".">>)
             ELSE res = Str(Prefix \o <<".", ".", ".">>)

\* C11 witness: a text cut at a space above 80% of maxLength
C11_Witness ==
  /\ op = "truncateText"
  /\ Len(InputText) > inp.maxLength
  /\ PositionsOf({" "}) # {}
  /\ 10 * Last(PositionsOf({" "})) > 8 * inp.maxLength
  /\ res = Str(SubSeq(Prefix, 1, Last(PositionsOf({" "}))) \o <<".", ".", ".">>)

\* C12: truncateDescription is idempotent: for every text x and every
\* maxLength n, truncateDescription(truncateDescription(x, n), n) equals
\* truncateDescription(x, n).
C12_Idempotent ==
  op = "truncateDescriptionAgain" => res.again = res.once

----------------------------------------------------------------------------
(* Calls of parseFormatOptions *)

\* detail_level arguments: the two levels in several spellings, an unknown
\* level, and values that are not strings
DetailLevelArgs ==
  {Str(Brief), Str(<<"B", "R", "I", "E", "F">>), Str(<<"F", "u", "l", "l">>), Str(Full),
   Str(<<"i", "n", "v", "a", "l", "i", "d">>), Str(<<>>), Num(123), Null, Bool(TRUE)}

\* brief_fields arguments: JSON texts of policies and of other values, texts
\* that are not JSON, and values that are not strings
BriefFieldsArgs ==
  {JsonText(AllOn), JsonText(NoGroups), JsonText(DescriptionTruncated), JsonText(Invalid),
   JsonText(Null), JsonText(Num(5)), AllOn, Num(5), Null, Bool(TRUE)}

\* values of the numeric arguments that are not numbers
NotNumbers == {Str(<<"1", "0", "0">>), Null, Bool(TRUE), Undef}

\* numbers on both sides of the limits of max_description_length
DescriptionLengths == ((-2)..60) \cup (990..1010)

\* numbers on both sides of the limits of max_journal_entries
JournalCounts == (-3)..13

\* the argument object with the given values, Absent standing for a missing key
Absent == [k |-> "absent"]

OptionArgs(level, fields, length, entries) ==
  LET all == [detail_level |-> level, brief_fields |-> fields,
              max_description_length |-> length, max_journal_entries |-> entries]
      present == {key \in DOMAIN all : all[key] # Absent}
  IN  [key \in present |-> all[key]]

InitOptions ==
  /\ pc = "idle"
  /\ handler = "none"
  /\ args = Undef
  /\ request = NoCall
  /\ calls = 0
  /\ collab = NoOutcome
  /\ outcome = "none"
  /\ envelope = NoEnvelope
  /\ op = "none"
  /\ \/ \E level \in DetailLevelArgs \cup {Absent}, fields \in BriefFieldsArgs \cup {Absent},
           length \in NotNumbers \cup {Absent, Num(25), Num(500), Num(5000)},
           entries \in NotNumbers \cup {Absent, Num(-1), Num(5), Num(15)} :
          inp = OptionArgs(level, fields, length, entries)
     \/ \E length \in DescriptionLengths, entries \in JournalCounts :
          inp = OptionArgs(Absent, Absent, Num(length), Num(entries))
  /\ res = Undef

\* parseFormatOptions(args)
ParseFormatOptions ==
  /\ op = "none"
  /\ op' = "parseFormatOptions"
  /\ res' = parseFormatOptions(inp)
  /\ UNCHANGED <<hvars, inp>>

NextOptions == ParseFormatOptions

SpecOptions == InitOptions /\ [][NextOptions]_vars

\* the argument of that name, Absent when the key is missing
Argument(key) == IF key \in DOMAIN inp THEN inp[key] ELSE Absent

\* the detail_level argument names a level, in any letter case
NamesLevel(v, lower, upper) ==
  /\ v.k = "string"
  /\ Len(v.s) = Len(lower)
  /\ \A i \in 1..Len(lower) : v.s[i] \in {lower[i], upper[i]}

WellFormedLevel ==
  \/ NamesLevel(Argument("detail_level"), Brief, <<"B", "R", "I", "E", "F">>)
  \/ NamesLevel(Argument("detail_level"), Full, <<"F", "U", "L", "L">>)

\* the brief_fields argument is a string that holds JSON
WellFormedFields ==
  /\ Argument("brief_fields").k = "string"
  /\ Argument("brief_fields").json.k # "invalid"

\* C14: parseFormatOptions never raises: for every argument object it returns
\* a configuration in which each malformed value has been ignored and the
\* default retained: detail_level full, selection policy unset,
\* max_description_length 200, max_journal_entries 3.
C14_MalformedIgnored ==
  op = "parseFormatOptions" =>
    /\ res.k = "object"
    /\ ~WellFormedLevel => res.detail_level = "full"
    /\ ~WellFormedFields => res.brief_fields = [k |-> "undefined"]
    /\ Argument("max_description_length").k # "number" =>
         res.max_description_length = [k |-> "number", n |-> 200]
    /\ Argument("max_journal_entries").k # "number" =>
         res.max_journal_entries = [k |-> "number", n |-> 3]

\* C14 witness: four malformed arguments, the defaults returned
C14_Witness ==
  /\ op = "parseFormatOptions"
  /\ DOMAIN inp = {"detail_level", "brief_fields", "max_description_length", "max_journal_entries"}
  /\ ~WellFormedLevel
  /\ Argument("brief_fields").k = "string"
  /\ ~WellFormedFields
  /\ Argument("max_description_length").k = "string"
  /\ Argument("max_journal_entries").k = "null"
  /\ res = [k |-> "object", detail_level |-> "full", brief_fields |-> [k |-> "undefined"],
            max_description_length |-> [k |-> "number", n |-> 200],
            max_journal_entries |-> [k |-> "number", n |-> 3]]

\* x limited to the range low..high
Clamp(x, low, high) == IF x < low THEN low ELSE IF x > high THEN high ELSE x

\* C15: for every numeric input x parseFormatOptions yields
\* max_description_length = min(max(x, 50), 1000) and max_journal_entries =
\* min(max(x, 0), 10), so they are in [50,1000] and [0,10]; non-numeric inputs
\* leave 200 and 3.
C15_Clamped ==
  op = "parseFormatOptions" =>
    /\ res.max_description_length.k = "number"
    /\ res.max_description_length.n \in 50..1000
    /\ res.max_journal_entries.k = "number"
    /\ res.max_journal_entries.n \in 0..10
    /\ res.max_description_length.n =
         IF Argument("max_description_length").k = "number"
         THEN Clamp(Argument("max_description_length").n, 50, 1000) ELSE 200
    /\ res.max_journal_entries.n =
         IF Argument("max_journal_entries").k = "number"
         THEN Clamp(Argument("max_journal_entries").n, 0, 10) ELSE 3

\* C15 witness: 25 becomes 50 and 13 becomes 10
C15_Witness ==
  /\ op = "parseFormatOptions"
  /\ Argument("max_description_length") = [k |-> "number", n |-> 25]
  /\ Argument("max_journal_entries") = [k |-> "number", n |-> 13]
  /\ res.max_description_length.n = 50
  /\ res.max_journal_entries.n = 10

----------------------------------------------------------------------------
(* Text filter builder calls *)

\* the values list_issues hands to the builder: undefined for a filter that
\* was not given, else the string of the argument
FilterTexts ==
  {Undef, Str(<<>>), Str(<<" ">>), Str(<<" ", "\t", "\n">>), Str(<<"f", "o", "o">>),
   Str(<<" ", "a", " ", "b", " ">>)}

InitFilters ==
  /\ pc = "idle"
  /\ handler = "none"
  /\ args = Undef
  /\ request = NoCall
  /\ calls = 0
  /\ collab = NoOutcome
  /\ outcome = "none"
  /\ envelope = NoEnvelope
  /\ op = "none"
  /\ \E s \in FilterTexts, d \in FilterTexts, n \in FilterTexts :
       inp = [subject_filter |-> s, description_filter |-> d, notes_filter |-> n]
  /\ res = Undef

\* buildTextFilterParams(textFilters)
BuildTextFilterParams ==
  /\ op = "none"
  /\ op' = "buildTextFilterParams"
  /\ res' = buildTextFilterParams(inp)
  /\ UNCHANGED <<hvars, inp>>

NextFilters == BuildTextFilterParams

SpecFilters == InitFilters /\ [][NextFilters]_vars

\* the filter of the field is given and is not empty after trimming
NonEmptyFilter(f) ==
  /\ inp[FilterArg[f]].k = "string"
  /\ \E i \in 1..Len(inp[FilterArg[f]].s) : inp[FilterArg[f]].s[i] \notin Whitespace

Fields == {"subject", "description", "notes"}

\* the names of the active fields, comma-joined in the order subject,
\* description, notes
ActiveNames ==
  LET s == IF NonEmptyFilter("subject") THEN <<FilterText["subject"]>> ELSE <<>>
      d == IF NonEmptyFilter("description") THEN <<FilterText["description"]>> ELSE <<>>
      n == IF NonEmptyFilter("notes") THEN <<FilterText["notes"]>> ELSE <<>>
  IN  JoinTexts(s \o d \o n, <<",">>)

\* C17: the text-filter builder adds op[<field>] = '~' and v[<field>][] =
\* <value> for exactly the fields whose filter is non-empty after trimming,
\* sets f[] to the comma-joined active field names in the order subject,
\* description, notes, and adds no f[], op[] or v[] entry for an empty or
\* whitespace-only filter (no f[] key when no filter is active).
C17_TextFilterDirectives ==
  op = "buildTextFilterParams" =>
    /\ DOMAIN res = {OpKey[f] : f \in {g \in Fields : NonEmptyFilter(g)}}
                      \cup {ValueKey[f] : f \in {g \in Fields : NonEmptyFilter(g)}}
                      \cup (IF \E f \in Fields : NonEmptyFilter(f) THEN {"f[]"} ELSE {})
    /\ \A f \in Fields :
         NonEmptyFilter(f) =>
           /\ res[OpKey[f]] = Str(<<"~">>)
           /\ res[ValueKey[f]] = inp[FilterArg[f]]
    /\ (\E f \in Fields : NonEmptyFilter(f)) => res["f[]"] = Str(ActiveNames)

C17_Witness ==
  /\ op = "buildTextFilterParams"
  /\ inp.subject_filter = Str(<<" ", "a", " ", "b", " ">>)
  /\ inp.description_filter = Str(<<" ", "\t", "\n">>)
  /\ inp.notes_filter = Str(<<"f", "o", "o">>)
  /\ DOMAIN res = {"f[]", "op[subject]", "v[subject][]", "op[notes]", "v[notes][]"}
  /\ res["f[]"] = Str(<<"s", "u", "b", "j", "e", "c", "t", ",", "n", "o", "t", "e", "s">>)

----------------------------------------------------------------------------
(* Issue list formatter calls *)

MaxIssues == 3

\* issues told apart by their id
ListedIssues ==
  {[MinimalIssue EXCEPT !.id = Num(1)], [MinimalIssue EXCEPT !.id = Num(2)],
   [CompleteIssue EXCEPT !.id = Num(3)]}

\* total_count, offset or limit of a response: absent, null, or a number
Counts == {Undef, Null, Num(0), Num(7)}

\* what stands in place of the issues collection when it is not a list
NotLists == {Undef, Null, Str(<<"x">>), Obj(1, <<"x">>)}

ListOptions ==
  {Undef,
   FormatOptions("brief", Undef, Num(DefaultMaxDescriptionLength),
                 Num(DefaultMaxJournalEntries))}

InitList ==
  /\ pc = "idle"
  /\ handler = "none"
  /\ args = Undef
  /\ request = NoCall
  /\ calls = 0
  /\ collab = NoOutcome
  /\ outcome = "none"
  /\ envelope = NoEnvelope
  /\ op = "none"
  /\ \/ \E r \in {Undef, Null}, o \in ListOptions : inp = [response |-> r, options |-> o]
     \/ \E l \in NotLists \cup {Arr(a) : a \in SeqsUpTo(ListedIssues, MaxIssues)},
           t \in Counts, f \in Counts, m \in Counts, o \in ListOptions :
          inp = [response |-> [k |-> "object", issues |-> l, total_count |-> t,
                               offset |-> f, limit |-> m],
                 options |-> o]
  /\ res = Undef

\* formatIssues(response, options)
FormatIssues ==
  /\ op = "none"
  /\ op' = "formatIssues"
  /\ res' = formatIssues(inp.response, inp.options)
  /\ UNCHANGED <<hvars, inp>>

NextList == FormatIssues

SpecList == InitList /\ [][NextList]_vars

\* the response has a non-empty list of issues
HasIssues ==
  /\ inp.response \notin {Undef, Null}
  /\ inp.response.issues.k = "array"
  /\ Len(inp.response.issues.a) > 0

\* the count as the wrapper shows it: 0 when the response does not have it
Shown(count) == IF count.k = "number" THEN NumText(count.n) ELSE <<"0">>

\* the positions of the rendered text where an issue element starts
IssueStarts == {i \in 1..Len(res) : res[i].tag = "issue"}

\* the ids of the issue elements, in the order rendered
RenderedIds ==
  LET starts == SelectSeq([i \in 1..Len(res) |-> i], LAMBDA i : i \in IssueStarts)
  IN  [n \in 1..Len(starts) |-> res[starts[n] + 1]]

\* C19: formatIssues returns the self-closed empty-collection element with
\* total_count, offset and limit 0 whenever the response or its issues
\* collection is absent, not a list or empty; otherwise it emits one issue
\* element per input issue, in input order, inside a wrapper whose
\* total_count, offset and limit are the response's values, an absent value
\* shown as 0.
C19_ListWrapper ==
  op = "formatIssues" =>
    IF ~HasIssues
    THEN res = <<IssuesElement(TRUE, <<"0">>, <<"0">>, <<"0">>)>>
    ELSE /\ res[1] = IssuesElement(FALSE, Shown(inp.response.total_count),
                                   Shown(inp.response.offset), Shown(inp.response.limit))
         /\ \A i \in 2..Len(res) : res[i].tag # "issues"
         /\ RenderedIds = [n \in 1..Len(inp.response.issues.a) |->
                             El("id", NumText(inp.response.issues.a[n].id.n))]
         /\ Tail(res) = Flatten([n \in 1..Len(inp.response.issues.a) |->
                                   formatIssue(inp.response.issues.a[n], inp.options)])

C19_Witness ==
  /\ op = "formatIssues"
  /\ HasIssues
  /\ Len(inp.response.issues.a) = 3
  /\ inp.response.issues.a[1].id = Num(2)
  /\ inp.response.issues.a[3].id = Num(1)
  /\ inp.response.total_count = Undef
  /\ inp.response.offset = Num(7)
  /\ res[1].total_count = <<"0">>
  /\ res[1].offset = <<"7">>
  /\ Cardinality(IssueStarts) = 3

\* a response without a list is rendered as the self-closed element
C19_WitnessEmpty ==
  /\ op = "formatIssues"
  /\ inp.response # Undef
  /\ inp.response # Null
  /\ inp.response.issues = Str(<<"x">>)
  /\ inp.response.total_count = Num(7)
  /\ Len(res) = 1
  /\ res[1].selfClosed

----------------------------------------------------------------------------
(* Custom field filter calls *)

\* the named subset that requests every name
EveryName == Arr(<<<<"A">>, <<"B">>>>)

InitFields ==
  /\ pc = "idle"
  /\ handler = "none"
  /\ args = Undef
  /\ request = NoCall
  /\ calls = 0
  /\ collab = NoOutcome
  /\ outcome = "none"
  /\ envelope = NoEnvelope
  /\ op = "none"
  /\ \E l \in SeqsUpTo(FieldNames \X FieldValues, MaxCustomFields),
        n \in {Undef, Num(1)}, o \in {Bool(TRUE), EveryName} :
       inp = [customFields |-> Arr([i \in 1..Len(l) |-> CustomField(i, l[i][1], l[i][2])]),
              maxFields |-> n, option |-> o]
  /\ res = Undef

\* summarizeCustomFields(customFields, maxFields)
SummarizeCustomFields ==
  /\ op = "none"
  /\ op' = "summarizeCustomFields"
  /\ res' = summarizeCustomFields(inp.customFields, Param(inp.maxFields, DefaultMaxFields))
  /\ UNCHANGED <<hvars, inp>>

\* skipEmptyCustomFields(customFields)
SkipEmptyCustomFields ==
  /\ op = "none"
  /\ op' = "skipEmptyCustomFields"
  /\ res' = skipEmptyCustomFields(inp.customFields.a)
  /\ UNCHANGED <<hvars, inp>>

\* selectCustomFields(customFields, option)
SelectCustomFields ==
  /\ op = "none"
  /\ op' = "selectCustomFields"
  /\ res' = selectCustomFields(inp.customFields.a, inp.option)
  /\ UNCHANGED <<hvars, inp>>

NextFields == SummarizeCustomFields \/ SkipEmptyCustomFields \/ SelectCustomFields

SpecFields == InitFields /\ [][NextFields]_vars

\* the fields of the input that the emptiness rule calls non-empty
NonEmptyFields == SelectSeq(inp.customFields.a, LAMBDA f : NonEmptyValue(f.value))

\* C21: the custom field emptiness rule is applied identically everywhere a
\* custom field is filtered: summarizeCustomFields, skipEmptyCustomFields and
\* the named-subset selection keep exactly the fields whose value is not null
\* or absent, (string) trims to non-empty, (sequence) has an element that
\* trims to non-empty.
C21_SameEmptinessRule ==
  /\ op = "skipEmptyCustomFields" => res = NonEmptyFields
  /\ op = "selectCustomFields" => res.fields = NonEmptyFields
  /\ (op = "summarizeCustomFields" /\ inp.maxFields = Undef) =>
       res = JoinTexts([i \in 1..Len(NonEmptyFields) |-> FieldSummary(NonEmptyFields[i])],
                       <<";", " ">>)

----------------------------------------------------------------------------
(* Brief and full output of one issue *)

\* the options of a brief request without policy and limits
BriefByDefault == FormatOptions("brief", Undef, Undef, Undef)

InitSize ==
  /\ pc = "idle"
  /\ handler = "none"
  /\ args = Undef
  /\ request = NoCall
  /\ calls = 0
  /\ collab = NoOutcome
  /\ outcome = "none"
  /\ envelope = NoEnvelope
  /\ op = "none"
  /\ \/ \E i \in Issues : inp = [issue |-> i]
     \/ \E j \in JournalLists, c \in {Undef} \cup {Arr(l) : l \in CustomFieldLists} :
          inp = [issue |-> [MinimalIssue EXCEPT !.journals = j, !.custom_fields = c]]
     \/ \E place \in TextPlaces, c \in Reserved : inp = [issue |-> IssueWith(place, c)]
  /\ res = Undef

\* formatIssue(issue, { detail_level: 'brief' })
FormatIssueInBrief ==
  /\ op = "none"
  /\ op' = "brief"
  /\ res' = [brief |-> formatIssue(inp.issue, BriefByDefault)]
  /\ UNCHANGED <<hvars, inp>>

\* formatIssue(issue) for the same issue
FormatIssueInFull ==
  /\ op = "brief"
  /\ op' = "brief and full"
  /\ res' = [brief |-> res.brief, full |-> formatIssue(inp.issue, Undef)]
  /\ UNCHANGED <<hvars, inp>>

NextSize == FormatIssueInBrief \/ FormatIssueInFull

SpecSize == InitSize /\ [][NextSize]_vars

\* C22: for every issue with all core fields present, brief-mode output with
\* the default policy and the default limits is strictly shorter than
\* full-mode output for the same issue.
C22_BriefShorterThanFull ==
  (op = "brief and full" /\ CorePresent) =>
    OutputLength(res.brief, FALSE) < OutputLength(res.full, TRUE)

\* the minimal issue: brief is 217 characters, full 301
C22_Witness ==
  /\ op = "brief and full"
  /\ inp.issue = MinimalIssue
  /\ CorePresent
  /\ OutputLength(res.brief, FALSE) = 217
  /\ OutputLength(res.full, TRUE) = 301

----------------------------------------------------------------------------
(* Full mode *)

\* the value is present: not undefined or null, and not the empty string
PresentValue(v) == v.k \notin {"undefined", "null"} /\ (v.k = "string" => Len(v.s) > 0)

\* the optional scalar fields and the element each is rendered as
ScalarElement ==
  [assigned_to |-> "assigned_to", category |-> "category", fixed_version |-> "version",
   parent |-> "parent_id", description |-> "description", start_date |-> "start_date",
   due_date |-> "due_date", closed_on |-> "closed_on",
   estimated_hours |-> "estimated_hours", spent_hours |-> "spent_hours"]

\* the texts that stand for the whole value: the value itself or its escaped form
WholeTexts(f, v) ==
  CASE v.k = "string" -> {v.s, escapeXml(v)}
    [] v.k = "number" -> {NumText(v.n)}
    [] v.k = "object" -> IF f = "parent" THEN {NumText(v.id)} ELSE {v.name, escapeXml(Str(v.name))}
    [] OTHER -> {}

\* the texts of the elements with the tag, in output order
TextsOf(tag) ==
  LET tagged == SelectSeq(res, LAMBDA e : e.tag = tag)
  IN  [i \in 1..Len(tagged) |-> tagged[i].text]

\* the list the issue has under the field, empty when it has none
ListOf(f) == IF PresentValue(inp.issue[f]) THEN inp.issue[f].a ELSE <<>>

\* the journal entries of the issue that have notes
NotedJournals == SelectSeq(ListOf("journals"), LAMBDA j : NotNullish(j.notes))

\* C23: with no config or detail_level = full, formatIssue renders every
\* present optional field untruncated, every custom field of the issue, the
\* empty ones included, and every journal entry whatever their number; it
\* renders no custom_fields and no description element when the issue has
\* none.
C23_FullRendersEverything ==
  FullMode =>
    /\ \A f \in DOMAIN ScalarElement :
         PresentValue(inp.issue[f]) =>
           \E i \in 1..Len(res) :
             res[i].tag = ScalarElement[f] /\ res[i].text \in WholeTexts(f, inp.issue[f])
    /\ TextsOf("field.id") =
         [i \in 1..Len(ListOf("custom_fields")) |-> NumText(ListOf("custom_fields")[i].id)]
    /\ TextsOf("field.name") =
         [i \in 1..Len(ListOf("custom_fields")) |->
            escapeXml(Str(ListOf("custom_fields")[i].name))]
    /\ TextsOf("journal.id") =
         [i \in 1..Len(ListOf("journals")) |-> NumText(ListOf("journals")[i].id)]
    /\ TextsOf("journal.notes") =
         [i \in 1..Len(NotedJournals) |-> escapeXml(NotedJournals[i].notes)]
    /\ ListOf("custom_fields") = <<>> => "custom_fields" \notin Tags(res)
    /\ ~PresentValue(inp.issue.description) => "description" \notin Tags(res)

\* full detail under limits of 3 characters and 1 entry: the whole description,
\* both custom fields (one of them empty) and all journal entries are rendered
C23_Witness ==
  /\ FullMode
  /\ inp.options = FullWithLimits
  /\ inp.issue = CompleteIssue
  /\ Len(TextsOf("journal.id")) = MaxJournals
  /\ Len(TextsOf("field.id")) = 2
  /\ TextsOf("description") = <<escapeXml(LongDescription)>>

----------------------------------------------------------------------------
(* Order of the elements *)

\* the layout of the output text format
Layout ==
  <<"id", "subject", "project", "tracker", "status", "priority", "author", "assigned_to",
    "category", "version", "start_date", "due_date", "progress", "estimated_hours",
    "spent_hours", "description", "custom_fields", "journals", "created_on", "updated_on",
    "closed_on", "warnings">>

\* the order in which formatIssueBrief appends its elements
BriefLayout ==
  <<"id", "subject", "project", "tracker", "status", "priority", "warnings", "assigned_to",
    "description", "category", "version", "start_date", "due_date", "created_on",
    "updated_on", "progress", "estimated_hours", "spent_hours", "custom_fields", "journals">>

\* the elements of the output named by the layout follow one another in the
\* order of the layout
InOrder(layout) ==
  LET Place(tag) == CHOOSE n \in 1..Len(layout) : layout[n] = tag
      named == {i \in 1..Len(res) : \E n \in 1..Len(layout) : layout[n] = res[i].tag}
  IN  \A i, j \in named : i < j => Place(res[i].tag) < Place(res[j].tag)

\* C25 as claimed: in every output of formatIssue, in full mode and in brief
\* mode, the tags that are present appear in the relative order of the fixed
\* layout, from id to warnings.
C25_FixedLayoutOrder ==
  (FullMode \/ BriefMode) => InOrder(Layout)

\* C25 amended: in full mode the tags that are present appear in the relative
\* order of the fixed layout; in brief mode they appear in the relative order
\* id, subject, project, tracker, status, priority, warnings, assigned_to,
\* description, category, version, start_date, due_date, created_on,
\* updated_on, progress, estimated_hours, spent_hours, custom_fields, journals.
C25_LayoutOrderPerMode ==
  /\ FullMode => InOrder(Layout)
  /\ BriefMode =>
       /\ InOrder(BriefLayout)
       /\ \A i \in 1..Len(res) : res[i].tag \in Range(Layout) => res[i].tag \in Range(BriefLayout)

\* brief output of a complete issue with every group on: the description
\* precedes the category, and created_on precedes progress
C25_Witness ==
  /\ BriefMode
  /\ {"assigned_to", "description", "category", "version", "start_date", "created_on",
      "progress", "spent_hours", "custom_fields", "journals"} \subseteq Tags(res)
  /\ ~InOrder(Layout)
  /\ InOrder(BriefLayout)

\* brief output with warnings: they follow the priority
C25_WitnessWarnings ==
  /\ BriefMode
  /\ \E i \in 2..Len(res) : res[i].tag = "warnings" /\ res[i - 1].tag = "priority"
  /\ "created_on" \in Tags(res)

----------------------------------------------------------------------------
(* One outcome per requested name *)

\* the reduced record has a custom field of that name
FieldSelected(name) ==
  \E i \in 1..Len(SelectedCustomFields) : SelectedCustomFields[i].name = name

\* the selection result has the warning that names it
Warned(name) == WarningText(name) \in Range(Warnings)

\* C26: for a named-subset custom_fields policy and an issue that has a
\* custom_fields collection, each requested name yields exactly one of two
\* outcomes, never both and never neither: a field of that name in the
\* reduced record, or a warning naming it; also when several custom fields of
\* the issue share a name and when the request repeats a name.
C26_FieldOrWarning ==
  (NamedSelection /\ inp.issue.custom_fields.k = "array") =>
    \A name \in Range(Requested) : FieldSelected(name) # Warned(name)

----------------------------------------------------------------------------
(* Objects shared between calls *)

\* Objects are held in a memory, a reference is a position in it. The first
\* object is the module's DEFAULT_FORMAT_OPTIONS; every other object was
\* created by a call and returned to the caller.
SharedDefault == 1

\* the reference that stands for an argument left undefined
NoObject == 0

MaxObjects == 3

\* the options parseFormatOptions assigns for these arguments
AssignedOptions(a) ==
  LET Has(key) == key \in DOMAIN a
  IN  {key \in {"detail_level"} :
         /\ Has(key) /\ IsString(a[key])
         /\ ToLowerCase(a[key].s) \in {Brief, Full}}
      \cup {key \in {"brief_fields"} :
              Has(key) /\ IsString(a[key]) /\ a[key].json # Invalid}
      \cup {key \in {"max_description_length", "max_journal_entries"} :
              Has(key) /\ a[key].k = "number"}

\* the assignments of parseFormatOptions applied to the object at a reference
AssignOptions(memory, ref, a) ==
  [memory EXCEPT ![ref] =
     [key \in DOMAIN memory[ref] |->
        IF key \in AssignedOptions(a) THEN parseFormatOptions(a)[key]
        ELSE memory[ref][key]]]

\* Mutant of parseFormatOptionsInMemory: const options = DEFAULT_FORMAT_OPTIONS,
\* the assignments go to the shared object and the shared object is returned
parseFormatOptionsInPlace(memory, a) ==
  [memory |-> AssignOptions(memory, SharedDefault, a), ref |-> SharedDefault]

\* parseFormatOptions with its objects: { ...DEFAULT_FORMAT_OPTIONS } copies
\* the fields the shared object has at the time of the call into a new
\* object, the assignments go to the copy, the copy is returned
parseFormatOptionsInMemory(memory, a) ==
  LET copied == Append(memory, memory[SharedDefault])
  IN  [memory |-> AssignOptions(copied, Len(copied), a), ref |-> Len(copied)]

\* createDefaultBriefFields with its objects: the object literal is a new
\* object at each call
createDefaultBriefFieldsInMemory(memory) ==
  [memory |-> Append(memory, createDefaultBriefFields), ref |-> Len(memory) + 1]

\* formatIssue with its objects: options is a reference or undefined; the
\* default policy of brief mode is a new object of the call
formatIssueInMemory(memory, issue, ref) ==
  LET options == IF ref = NoObject THEN Undef ELSE memory[ref]
      created == createDefaultBriefFieldsInMemory(memory)
      policy == IF Truthy(options.brief_fields) THEN options.brief_fields
                ELSE created.memory[created.ref]
  IN  IF ~Truthy(options) \/ options.detail_level = "full"
      THEN formatIssueFull(issue)
      ELSE formatIssueBrief(issue, policy,
                            OrDefault(options.max_description_length, 200),
                            OrDefault(options.max_journal_entries, 3))

\* argument objects of the calls of parseFormatOptions
SharedArgs ==
  {OptionArgs(Absent, Absent, Absent, Absent),
   OptionArgs(Str(Brief), JsonText(AllOn), Absent, Num(1)),
   OptionArgs(Absent, JsonText(Invalid), Num(60), Absent)}

\* what a caller writes into an object it was given
Writes ==
  {<<"detail_level", "brief">>, <<"max_journal_entries", Num(0)>>,
   <<"description", Bool(TRUE)>>}

InitShared ==
  /\ pc = "idle"
  /\ handler = "none"
  /\ args = Undef
  /\ request = NoCall
  /\ calls = 0
  /\ collab = NoOutcome
  /\ outcome = "none"
  /\ envelope = NoEnvelope
  /\ op = "none"
  /\ inp = [memory |-> <<DEFAULT_FORMAT_OPTIONS>>, written |-> {}]
  /\ res = Undef

\* options = parseFormatOptions(a)
CallParseFormatOptions ==
  \E a \in SharedArgs :
    LET r == parseFormatOptionsInMemory(inp.memory, a)
    IN  /\ Len(inp.memory) < MaxObjects
        /\ op' = "parseFormatOptions"
        /\ inp' = [inp EXCEPT !.memory = r.memory]
        /\ res' = [ref |-> r.ref, args |-> a, before |-> inp.memory]
        /\ UNCHANGED hvars

\* fields = createDefaultBriefFields()
CallCreateDefaultBriefFields ==
  LET r == createDefaultBriefFieldsInMemory(inp.memory)
  IN  /\ Len(inp.memory) < MaxObjects
      /\ op' = "createDefaultBriefFields"
      /\ inp' = [inp EXCEPT !.memory = r.memory]
      /\ res' = [ref |-> r.ref, args |-> Undef, before |-> inp.memory]
      /\ UNCHANGED hvars

\* the caller assigns to a property of an object a call returned
WriteReturned ==
  \E ref \in 2..Len(inp.memory), w \in Writes :
    /\ w[1] \in DOMAIN inp.memory[ref]
    /\ inp.memory[ref][w[1]] # w[2]
    /\ op' = "write"
    /\ inp' = [memory |-> [inp.memory EXCEPT ![ref][w[1]] = w[2]],
               written |-> inp.written \cup {ref}]
    /\ res' = Undef
    /\ UNCHANGED hvars

\* formatIssue(issue, options) with options undefined or an object a call of
\* parseFormatOptions returned
CallFormatIssue ==
  \E ref \in {NoObject} \cup 2..Len(inp.memory) :
    /\ ref # NoObject => "detail_level" \in DOMAIN inp.memory[ref]
    /\ op' = "formatIssue"
    /\ res' = [ref |-> ref, args |-> IF ref = NoObject THEN Undef ELSE inp.memory[ref],
               before |-> inp.memory,
               doc |-> formatIssueInMemory(inp.memory, CompleteIssue, ref)]
    /\ UNCHANGED <<hvars, inp>>

NextShared ==
  \/ CallParseFormatOptions
  \/ CallCreateDefaultBriefFields
  \/ WriteReturned
  \/ CallFormatIssue

SpecShared == InitShared /\ [][NextShared]_vars

\* the objects that existed before the call are as they were
EarlierObjectsKept ==
  /\ Len(inp.memory) >= Len(res.before)
  /\ \A i \in 1..Len(res.before) : inp.memory[i] = res.before[i]

\* C27: the result of a call depends only on the call's arguments, whatever
\* was written to the objects earlier calls returned: parseFormatOptions
\* returns a new object that holds what the arguments alone determine and
\* leaves the shared default configuration as it was, createDefaultBriefFields
\* returns a new object with the default policy, and formatIssue renders what
\* its issue and options alone determine.
C27_NothingSharedBetweenCalls ==
  /\ inp.memory[SharedDefault] = DEFAULT_FORMAT_OPTIONS
  /\ op = "parseFormatOptions" =>
       /\ res.ref = Len(res.before) + 1
       /\ inp.memory[res.ref] = parseFormatOptions(res.args)
       /\ EarlierObjectsKept
  /\ op = "createDefaultBriefFields" =>
       /\ res.ref = Len(res.before) + 1
       /\ inp.memory[res.ref] = createDefaultBriefFields
       /\ EarlierObjectsKept
  /\ op = "formatIssue" =>
       /\ res.doc = formatIssue(CompleteIssue, res.args)
       /\ EarlierObjectsKept

\* a call of parseFormatOptions after the caller wrote to an object an
\* earlier call returned
C27_Witness ==
  /\ op = "parseFormatOptions"
  /\ \E i \in inp.written : inp.memory[i].detail_level = "brief"
  /\ inp.memory[res.ref].detail_level = "full"

\* a call of formatIssue without a policy after the caller wrote to a policy
\* createDefaultBriefFields returned
C27_WitnessPolicy ==
  /\ op = "formatIssue"
  /\ \E i \in inp.written : inp.memory[i] # createDefaultBriefFields
                             /\ "description" \in DOMAIN inp.memory[i]
  /\ res.ref # NoObject
  /\ res.args.detail_level = "brief"
  /\ ~Truthy(res.args.brief_fields)

----------------------------------------------------------------------------
(* Inputs after a call *)

\* The journal entries are objects in a memory and a journal list is an array
\* of references to them: journals.slice(-maxEntries) is a new array of the
\* same references, { ...journal, notes: ... } is a new object.

\* the entries an array of references stands for
Entries(memory, journals) ==
  IF journals.k = "array"
  THEN Arr([i \in 1..Len(journals.a) |-> memory[journals.a[i]]])
  ELSE journals

\* the notes limitJournalEntries writes for an entry
LimitedNotes(journal, maxNoteLength) ==
  IF Truthy(journal.notes) THEN Str(truncateText(journal.notes.s, maxNoteLength))
  ELSE journal.notes

\* Mutant of limitJournalEntriesInMemory: the notes are assigned to the
\* entries of the list, limited.forEach(journal => { journal.notes = ... })
limitJournalEntriesInPlace(memory, journals, maxEntries, maxNoteLength) ==
  IF ~Truthy(journals) \/ Len(journals.a) = 0
  THEN [memory |-> memory, journals |-> journals, result |-> <<>>]
  ELSE LET limited == Slice(journals.a, -maxEntries)
           written == {limited[i] : i \in 1..Len(limited)}
       IN  [memory |-> [r \in 1..Len(memory) |->
                          IF r \in written
                          THEN [memory[r] EXCEPT !.notes = LimitedNotes(memory[r], maxNoteLength)]
                          ELSE memory[r]],
            journals |-> journals,
            result |-> limited]

\* limitJournalEntries with its objects: the memory and the list after the
\* call, and the returned array of references
limitJournalEntriesInMemory(memory, journals, maxEntries, maxNoteLength) ==
  IF ~Truthy(journals) \/ Len(journals.a) = 0
  THEN [memory |-> memory, journals |-> journals, result |-> <<>>]
  ELSE LET limited == Slice(journals.a, -maxEntries)
           copies == [i \in 1..Len(limited) |->
                        [memory[limited[i]] EXCEPT
                           !.notes = LimitedNotes(memory[limited[i]], maxNoteLength)]]
       IN  [memory |-> memory \o copies,
            journals |-> journals,
            result |-> [i \in 1..Len(limited) |-> Len(memory) + i]]

\* formatIssueBrief with its objects: selectFields hands the issue's own
\* journal list to limitJournalEntries when the policy has journals on
formatIssueBriefInMemory(memory, issue, options, maxDescLength, maxJournalEntries) ==
  LET whole == [issue EXCEPT !.journals = Entries(memory, issue.journals)]
      limited == limitJournalEntriesInMemory(memory, issue.journals, maxJournalEntries,
                                             DefaultMaxNoteLength)
      rendered == Truthy(issue.journals) /\ Truthy(options.journals)
  IN  [memory |-> IF rendered THEN limited.memory ELSE memory,
       issue |-> IF rendered THEN [issue EXCEPT !.journals = limited.journals] ELSE issue,
       options |-> options,
       result |-> formatIssueBrief(whole, options, maxDescLength, maxJournalEntries)]

\* the entries of a journal list of n entries
EntryObjects(n, shift) == [i \in 1..n |-> JournalEntry(i, shift)]

FramePolicies == {AllOn, createDefaultBriefFields, DescriptionTruncated}

InitFrame ==
  /\ pc = "idle"
  /\ handler = "none"
  /\ args = Undef
  /\ request = NoCall
  /\ calls = 0
  /\ collab = NoOutcome
  /\ outcome = "none"
  /\ envelope = NoEnvelope
  /\ op = "none"
  /\ \E n \in 0..MaxJournals, shift \in 0..1, listed \in BOOLEAN,
        base \in {MinimalIssue, CompleteIssue}, options \in FramePolicies,
        maxEntries \in {-1, 0, 2}, maxNoteLength \in {Undef, Num(ShortNoteLength)} :
       LET memory == EntryObjects(n, shift)
           issue == [base EXCEPT !.journals = IF listed THEN Arr([i \in 1..n |-> i])
                                              ELSE Undef]
           given == [memory |-> memory, issue |-> issue, options |-> options]
       IN  inp = [memory |-> memory, issue |-> issue, options |-> options,
                  maxEntries |-> maxEntries, maxNoteLength |-> maxNoteLength,
                  given |-> given]
  /\ res = Undef

\* limitJournalEntries(issue.journals, maxEntries, maxNoteLength = 100)
LimitJournalEntriesInMemory ==
  LET r == limitJournalEntriesInMemory(inp.memory, inp.issue.journals, inp.maxEntries,
                                       Param(inp.maxNoteLength, DefaultMaxNoteLength))
  IN  /\ op = "none"
      /\ op' = "limitJournalEntries"
      /\ inp' = [inp EXCEPT !.memory = r.memory, !.issue.journals = r.journals]
      /\ res' = Entries(r.memory, Arr(r.result)).a
      /\ UNCHANGED hvars

\* formatIssueBrief(issue, options)
FormatIssueBriefInMemory ==
  LET r == formatIssueBriefInMemory(inp.memory, inp.issue, inp.options, 200, 3)
  IN  /\ op = "none"
      /\ op' = "formatIssueBrief"
      /\ inp' = [inp EXCEPT !.memory = r.memory, !.issue = r.issue, !.options = r.options]
      /\ res' = r.result
      /\ UNCHANGED hvars

\* selectFields(issue, options): it assigns to the properties of the new
\* record only
SelectFieldsInMemory ==
  /\ op = "none"
  /\ op' = "selectFields"
  /\ res' = selectFields([inp.issue EXCEPT !.journals = Entries(inp.memory, @)],
                         inp.options)
  /\ UNCHANGED <<hvars, inp>>

\* skipEmptyCustomFields(issue.custom_fields): Array.prototype.filter
\* returns a new array
SkipEmptyCustomFieldsInMemory ==
  /\ op = "none"
  /\ Truthy(inp.issue.custom_fields)
  /\ op' = "skipEmptyCustomFields"
  /\ res' = skipEmptyCustomFields(inp.issue.custom_fields.a)
  /\ UNCHANGED <<hvars, inp>>

NextFrame ==
  \/ LimitJournalEntriesInMemory
  \/ FormatIssueBriefInMemory
  \/ SelectFieldsInMemory
  \/ SkipEmptyCustomFieldsInMemory

SpecFrame == InitFrame /\ [][NextFrame]_vars

\* the journal entries the issue was given with
GivenEntries == Entries(inp.given.memory, inp.given.issue.journals)

\* C28: selectFields, skipEmptyCustomFields, limitJournalEntries and
\* formatIssueBrief leave their inputs unchanged: after the call the issue,
\* its custom-field list, its journal list (its length and the notes of every
\* entry) and the selection policy are equal to what they were before the
\* call, also when the result holds truncated notes.
C28_InputsUnchanged ==
  op # "none" =>
    /\ inp.issue = inp.given.issue
    /\ inp.issue.custom_fields = inp.given.issue.custom_fields
    /\ inp.options = inp.given.options
    /\ Entries(inp.memory, inp.issue.journals) = GivenEntries
    /\ \A r \in 1..Len(inp.given.memory) : inp.memory[r] = inp.given.memory[r]
    /\ op = "limitJournalEntries" =>
         res = limitJournalEntries(GivenEntries, inp.maxEntries,
                                   Param(inp.maxNoteLength, DefaultMaxNoteLength))

\* limitJournalEntries returned an entry whose notes are cut, they differ
\* from the notes of the entry it was made from
C28_Witness ==
  /\ op = "limitJournalEntries"
  /\ Len(res) > 0
  /\ \E i \in 1..Len(res) :
       \E j \in 1..Len(GivenEntries.a) :
          /\ res[i].id = GivenEntries.a[j].id
          /\ Truthy(GivenEntries.a[j].notes)
          /\ res[i].notes # GivenEntries.a[j].notes

\* formatIssueBrief rendered the notes of the entries limitJournalEntries
\* returned for the issue's journal list
C28_WitnessBrief ==
  /\ op = "formatIssueBrief"
  /\ Len(inp.memory) > Len(inp.given.memory)
  /\ \E i \in 1..Len(res) : res[i].tag = "journal.notes"

----------------------------------------------------------------------------
(* maxEntries of 0 and below *)

\* the number of entries a maxEntries of 0 or below removes from the start
Dropped == Min(-MaxEntries, Len(InputJournals))

\* the result is the input without its first entries, the notes apart
RestReturned ==
  /\ Len(res) = Len(InputJournals) - Dropped
  /\ \A i \in 1..Len(res) :
       [res[i] EXCEPT !.notes = InputJournals[Dropped + i].notes]
         = InputJournals[Dropped + i]

\* C29 as claimed: for a non-empty journal list limitJournalEntries with
\* maxEntries = 0 returns all entries and with a negative maxEntries = -k
\* returns the list without its first k entries, and the result is not the
\* empty list in either case.
C29_NeverEmptyAtOrBelowZero ==
  (op = "limitJournalEntries" /\ Len(InputJournals) > 0 /\ MaxEntries <= 0) =>
    /\ RestReturned
    /\ Len(res) > 0

\* C29 amended: for a non-empty journal list limitJournalEntries with
\* maxEntries = 0 returns all entries and with a negative maxEntries = -k
\* returns the list without its first k entries; the result is the empty
\* list exactly when k is at least the length of the list.
C29_RestAtOrBelowZero ==
  (op = "limitJournalEntries" /\ Len(InputJournals) > 0 /\ MaxEntries <= 0) =>
    /\ RestReturned
    /\ MaxEntries = 0 => Len(res) = Len(InputJournals)
    /\ Len(res) = 0 <=> -MaxEntries >= Len(InputJournals)

\* five entries and maxEntries = -1: the last four are returned
C29_Witness ==
  /\ op = "limitJournalEntries"
  /\ Len(InputJournals) = 5
  /\ MaxEntries = -1
  /\ Len(res) = 4
  /\ res[1].id = 2

\* five entries and maxEntries = 0: all five are returned
C29_WitnessZero ==
  /\ op = "limitJournalEntries"
  /\ Len(InputJournals) = 5
  /\ MaxEntries = 0
  /\ Len(res) = 5

\* one entry and maxEntries = -1: nothing is returned
C29_WitnessEmptied ==
  /\ op = "limitJournalEntries"
  /\ Len(InputJournals) = 1
  /\ MaxEntries = -1
  /\ res = <<>>

----------------------------------------------------------------------------
(* Relations *)

\* the element names that would render the relations of an issue
RelationTags == {"relations", "relation"}

\* the relations selectFields copies for this issue and policy
RelationsSelected ==
  IF Truthy(inp.options.brief_fields.relations) /\ Truthy(inp.issue.relations)
  THEN inp.issue.relations ELSE Undef

C30_WitnessSelected ==
  /\ op = "selectFields"
  /\ inp.issue.relations.k = "array"
  /\ Len(inp.issue.relations.a) > 0
  /\ res.issue.relations = inp.issue.relations

\* full output of an issue that has relations
C30_WitnessFull ==
  /\ op = "formatIssue"
  /\ ~BriefMode
  /\ Truthy(inp.issue.relations)
  /\ Len(inp.issue.relations.a) > 0

====
